---- MODULE Spec2Model ----
(***************************************************************************)
(* GoodnessGrid: the donation / claim / assignment lifecycle.              *)
(*                                                                         *)
(* The relational store holds the committed tables Donations and           *)
(* Transactions.  Every request opens its own connection (autocommit off):  *)
(* the statements of one call write into the connection's uncommitted      *)
(* write set and lock the rows they touch; connection.commit() publishes    *)
(* the write set, connection.close() without commit discards it.  Requests  *)
(* run concurrently and interleave statement by statement.                  *)
(***************************************************************************)
EXTENDS Integers, FiniteSets, Sequences, TLC

\* ---------------------------------------------------------------- bounds
MaxDonations == 2      \* donation ids handed out by AUTO_INCREMENT
MaxTxn == 2            \* transaction ids handed out by AUTO_INCREMENT
MaxClock == 2          \* values NOW() can take
MaxRequests == 4       \* requests served in one run
MaxCount == 7          \* Transactions of one status in a statistics input
MaxRows == 2           \* Donations in a store the search is run against

\* SQL NULL (volunteer_id before assignment, completed_at before completion)
NULL == 0

\* Concurrent requests in flight (each has its own connection)
Procs == {1, 2}

\* The registered users and the role each session carries
Role == <<"donor", "ngo", "receiver", "volunteer", "volunteer", "admin">>
Users == DOMAIN Role

VARIABLES session,       \* per browser: the Flask session, a dict
          Registered,    \* committed Users rows: user_id -> [email, role, ...]
          nextUid,       \* AUTO_INCREMENT counter of Users
          Verified,      \* committed Users rows whose verified flag is TRUE
          Donations,     \* committed rows: donation_id -> [donor_id, status]
          Transactions,  \* committed rows: transaction_id -> row
          nextDid,       \* AUTO_INCREMENT counter of Donations
          nextTid,       \* AUTO_INCREMENT counter of Transactions
          now,           \* the store's clock, NOW()
          served,        \* requests accepted so far
          proc           \* per request: position, arguments, write set, locks
                         \*   pc            the statement the call runs next
                         \*   op, usr, arg  the route, session['user_id'], the id in the URL
                         \*   snap, snapD   committed status of the target row (and of its
                         \*                 donation) when the call was made
                         \*   rows          rows changed by the call's latest UPDATE
                         \*   result, err   the value returned; whether Error was raised
                         \*   form          the submitted form, as the route reads it
                         \*   denied        the route turned the session away
                         \*   conn          get_db_connection() returned a connection
                         \*   wD, wT, wU    uncommitted writes to Donations, Transactions, Users
                         \*   wR            uncommitted rows inserted into Users
                         \*   lkD, lkT, lkU row locks held

vars == <<session, Registered, nextUid, Verified, Donations, Transactions, nextDid, nextTid, now, served, proc>>

\* session.clear(), and the session of a browser that never logged in
NoSession == <<>>

\* ------------------------------------------------------- the routes' gates
\* the role each mutating route asks of the session
RouteRolesDonorClaims ==
    [post |-> {"donor"}, claim |-> {"donor", "receiver", "ngo"},
     assign |-> {"volunteer"}, complete |-> {"volunteer"}, verify |-> {"admin"}]

RouteRoles ==
    [post |-> {"donor"}, claim |-> {"receiver", "ngo"}, assign |-> {"volunteer"},
     complete |-> {"volunteer"}, verify |-> {"admin"}]

\* 'email' in session and session.get('role') is the route's; s is the
\* session's user_id, NULL when nobody is logged in
AllowedAnySession(route, s) == s \in Users

Allowed(route, s) == s \in Users /\ Role[s] \in RouteRoles[route]

\* ------------------------------------------------------------ row helpers
DonationRow(donor) == [donor_id |-> donor, status |-> "available"]

TransactionRow(d, ngo) ==
    [donation_id |-> d, ngo_id |-> ngo, volunteer_id |-> NULL,
     status |-> "pending", completed_at |-> NULL]

\* rows of new that differ from (or are missing in) old
Changed(old, new) ==
    [x \in {y \in DOMAIN new : y \notin DOMAIN old \/ old[y] # new[y]} |-> new[x]]

\* what the statements of request p read: its own writes over the committed rows
ViewD(p) == proc[p].wD @@ Donations
ViewT(p) == proc[p].wT @@ Transactions

\* a row lock is free for p when no other open connection holds it
FreeD(p, d) == \A q \in Procs \ {p} : d \notin proc[q].lkD
FreeT(p, t) == \A q \in Procs \ {p} : t \notin proc[q].lkT
FreeU(p, u) == \A q \in Procs \ {p} : u \notin proc[q].lkU

Idle ==
    [pc |-> "idle", op |-> "none", usr |-> NULL, arg |-> NULL,
     result |-> FALSE, err |-> FALSE, rows |-> 0,
     snap |-> "none", snapD |-> "none",
     form |-> <<>>, denied |-> FALSE, conn |-> TRUE,
     wD |-> <<>>, wT |-> <<>>, wU |-> {}, wR |-> <<>>,
     lkD |-> {}, lkT |-> {}, lkU |-> {}]

\* ------------------------------------------------------------ form text
\* Text is a sequence of one-character strings.  str.strip()
LStrip(s) ==
    LET k == CHOOSE i \in 0..Len(s) :
                 /\ \A j \in 1..i : s[j] = " "
                 /\ (i < Len(s) => s[i + 1] # " ")
    IN  SubSeq(s, k + 1, Len(s))

RStrip(s) ==
    LET k == CHOOSE i \in 0..Len(s) :
                 /\ \A j \in (i + 1)..Len(s) : s[j] = " "
                 /\ (i > 0 => s[i] # " ")
    IN  SubSeq(s, 1, k)

Strip(s) == RStrip(LStrip(s))

\* str.lower(), for the letters the forms use
UpperToLower == ("A" :> "a") @@ ("B" :> "b") @@ ("C" :> "c")

Lower(s) ==
    [i \in 1..Len(s) |-> IF s[i] \in DOMAIN UpperToLower THEN UpperToLower[s[i]]
                                                         ELSE s[i]]

\* str.isdigit()
Digits == {"0", "1", "2", "3", "4", "5", "6", "7", "8", "9"}
IsDigit(s) == s # <<>> /\ \A i \in 1..Len(s) : s[i] \in Digits

\* c in s
HasChar(s, c) == \E i \in 1..Len(s) : s[i] = c

\* s.split('@')[1], for s holding an '@'
SecondPart(s) ==
    LET at == CHOOSE i \in 1..Len(s) : s[i] = "@" /\ \A j \in 1..(i - 1) : s[j] # "@"
        rest == SubSeq(s, at + 1, Len(s))
    IN  IF HasChar(rest, "@")
        THEN SubSeq(rest, 1, (CHOOSE i \in 1..Len(rest) :
                                 rest[i] = "@" /\ \A j \in 1..(i - 1) : rest[j] # "@") - 1)
        ELSE rest

\* --------------------------------------------------- register: the form
RegisterFields(raw) ==
    [fullname |-> Strip(raw.fullname), email |-> Lower(Strip(raw.email)),
     phone |-> Strip(raw.phone), role |-> Strip(raw.role),
     password |-> raw.password, confirm_password |-> raw.confirm_password]

\* ['donor', 'receiver', 'volunteer', 'ngo']
RegisterRolesWithAdmin ==
    {<<"d", "o", "n", "o", "r">>, <<"r", "e", "c", "e", "i", "v", "e", "r">>,
     <<"v", "o", "l", "u", "n", "t", "e", "e", "r">>, <<"n", "g", "o">>,
     <<"a", "d", "m", "i", "n">>}

RegisterRoles ==
    {<<"d", "o", "n", "o", "r">>, <<"r", "e", "c", "e", "i", "v", "e", "r">>,
     <<"v", "o", "l", "u", "n", "t", "e", "e", "r">>, <<"n", "g", "o">>}

\* the errors list the route builds; existing is what get_user_by_email found
RegisterErrorsNoDigitRule(f, existing) ==
    {e \in {"required", "name", "email", "exists", "phone_digits", "phone_len",
            "role", "password_len", "password_digit", "match"} :
        \/ e = "required" /\ <<>> \in {f.fullname, f.email, f.phone, f.role,
                                       f.password, f.confirm_password}
        \/ e = "name" /\ f.fullname # <<>> /\ Len(f.fullname) < 3
        \/ e = "email" /\ f.email # <<>>
              /\ (~HasChar(f.email, "@") \/ ~HasChar(SecondPart(f.email), "."))
        \/ e = "exists" /\ f.email # <<>> /\ existing
        \/ e = "phone_digits" /\ f.phone # <<>> /\ ~IsDigit(f.phone)
        \/ e = "phone_len" /\ f.phone # <<>> /\ Len(f.phone) # 10
        \/ e = "role" /\ f.role # <<>> /\ f.role \notin RegisterRoles
        \/ e = "password_len" /\ f.password # <<>> /\ Len(f.password) < 6
        \/ e = "match" /\ f.password # f.confirm_password}

RegisterErrors(f, existing) ==
    {e \in {"required", "name", "email", "exists", "phone_digits", "phone_len",
            "role", "password_len", "password_digit", "match"} :
        \/ e = "required" /\ <<>> \in {f.fullname, f.email, f.phone, f.role,
                                       f.password, f.confirm_password}
        \/ e = "name" /\ f.fullname # <<>> /\ Len(f.fullname) < 3
        \/ e = "email" /\ f.email # <<>>
              /\ (~HasChar(f.email, "@") \/ ~HasChar(SecondPart(f.email), "."))
        \/ e = "exists" /\ f.email # <<>> /\ existing
        \/ e = "phone_digits" /\ f.phone # <<>> /\ ~IsDigit(f.phone)
        \/ e = "phone_len" /\ f.phone # <<>> /\ Len(f.phone) # 10
        \/ e = "role" /\ f.role # <<>> /\ f.role \notin RegisterRoles
        \/ e = "password_len" /\ f.password # <<>> /\ Len(f.password) < 6
        \/ e = "password_digit" /\ f.password # <<>>
              /\ ~\E i \in 1..Len(f.password) : f.password[i] \in Digits
        \/ e = "match" /\ f.password # f.confirm_password}

\* forms a browser submits: a well-formed one, and the forms that differ
\* from it in one field
TenDigits == <<"9", "8", "7", "6", "5", "4", "3", "2", "1", "0">>
GoodForm ==
    [fullname |-> <<"A", "n", "n">>, email |-> <<"a", "@", "b", ".", "c">>,
     phone |-> TenDigits, role |-> <<"d", "o", "n", "o", "r">>,
     password |-> <<"a", "b", "c", "d", "e", "1">>,
     confirm_password |-> <<"a", "b", "c", "d", "e", "1">>]

RawRegisterForms ==
    {[GoodForm EXCEPT !.fullname = x] : x \in {<<"A", "n", "n">>, <<" ">>}}
    \cup {[GoodForm EXCEPT !.email = x] :
             x \in {<<" ", "A", "@", "b", ".", "c">>, <<"c", "@", "b", ".", "c">>,
                    <<"a", "@", "b", "c">>, <<>>}}
    \cup {[GoodForm EXCEPT !.phone = x] :
             x \in {SubSeq(TenDigits, 1, 9), SubSeq(TenDigits, 1, 9) \o <<"x">>, <<>>}}
    \cup {[GoodForm EXCEPT !.role = x] :
             x \in {<<"a", "d", "m", "i", "n">>, <<"n", "g", "o">>, <<>>}}
    \cup {[GoodForm EXCEPT !.password = x, !.confirm_password = x] :
             x \in {<<"a", "b", "c", "d", "e", "f">>, <<"a", "b", "c", "1">>, <<>>}}
    \cup {[GoodForm EXCEPT !.confirm_password = x] :
             x \in {<<"a", "b", "c", "d", "e", "2">>}}

\* the forms as the route reads them
RegisterForms == {RegisterFields(raw) : raw \in RawRegisterForms}

\* the errors list of each form, by what the lookup found
RegisterErrorsOf ==
    [f \in RegisterForms |-> [existing \in BOOLEAN |-> RegisterErrors(f, existing)]]

\* ----------------------------------------------- post_donation: the form
\* request.form.get(...).strip() of the four required fields
PostFields(raw) ==
    [type |-> Strip(raw.type), description |-> Strip(raw.description),
     quantity |-> Strip(raw.quantity), pickup_address |-> Strip(raw.pickup_address)]

\* the errors list the route builds
PostErrorsEmptyOnly(f) ==
    {e \in {"type", "description", "quantity", "pickup_address"} :
        \/ e = "type" /\ f.type = <<>>
        \/ e = "description" /\ f.description = <<>>
        \/ e = "quantity" /\ f.quantity = <<>>
        \/ e = "pickup_address" /\ f.pickup_address = <<>>}

PostErrors(f) ==
    {e \in {"type", "description", "quantity", "pickup_address"} :
        \/ e = "type" /\ f.type = <<>>
        \/ e = "description" /\ (f.description = <<>> \/ Len(f.description) < 10)
        \/ e = "quantity" /\ f.quantity = <<>>
        \/ e = "pickup_address" /\ (f.pickup_address = <<>> \/ Len(f.pickup_address) < 10)}

\* forms a browser submits
TenChars == <<"f", "r", "e", "s", "h", " ", "r", "i", "c", "e">>
RawPostForms ==
    [type : {<<"f">>, <<" ">>},
     description : {TenChars, <<" ">> \o TenChars, <<"r", "i", "c", "e">>,
                    SubSeq(TenChars, 1, 9) \o <<" ">>},
     quantity : {<<"2">>, <<>>},
     pickup_address : {TenChars, <<"h", "o", "m", "e">>}]

\* the forms as the route reads them
PostForms == {PostFields(raw) : raw \in RawPostForms}

\* the errors list of each form
PostErrorsOf == [f \in PostForms |-> PostErrors(f)]

\* --------------------------------------------------------- SQL statements
\* UPDATE Donations SET status='claimed' WHERE donation_id=d AND status='available'
ClaimUpdateUnguarded(D, d) ==
    [x \in DOMAIN D |->
        IF x = d THEN [D[x] EXCEPT !.status = "claimed"] ELSE D[x]]

ClaimUpdateSkipped(D, d) == D

ClaimUpdateAllAvailable(D, d) ==
    [x \in DOMAIN D |->
        IF D[x].status = "available"
        THEN [D[x] EXCEPT !.status = "claimed"] ELSE D[x]]

ClaimUpdate(D, d) ==
    [x \in DOMAIN D |->
        IF x = d /\ D[x].status = "available"
        THEN [D[x] EXCEPT !.status = "claimed"] ELSE D[x]]

\* UPDATE Transactions SET volunteer_id=v, status='in_progress' WHERE transaction_id=t
AssignUpdateTakesOver(T, t, v) ==
    [x \in DOMAIN T |->
        IF x = t
        THEN [T[x] EXCEPT !.volunteer_id = v, !.ngo_id = v, !.status = "in_progress"]
        ELSE T[x]]

AssignUpdate(T, t, v) ==
    [x \in DOMAIN T |->
        IF x = t
        THEN [T[x] EXCEPT !.volunteer_id = v, !.status = "in_progress"]
        ELSE T[x]]

\* UPDATE Transactions SET status='completed', completed_at=NOW() WHERE transaction_id=t
CompleteUpdate1Skipped(T, t, clock) == T

CompleteUpdate1(T, t, clock) ==
    [x \in DOMAIN T |->
        IF x = t
        THEN [T[x] EXCEPT !.status = "completed", !.completed_at = clock]
        ELSE T[x]]

\* UPDATE Donations d JOIN Transactions t ON d.donation_id = t.donation_id
\*   SET d.status='completed' WHERE t.transaction_id=t
JoinedDonations(T, t) == {T[x].donation_id : x \in DOMAIN T \cap {t}}

CompleteUpdate2Skipped(D, T, t) == D

CompleteUpdate2WrongJoin(D, T, t) ==
    [x \in DOMAIN D |->
        IF x \in DOMAIN T \cap {t}
        THEN [D[x] EXCEPT !.status = "completed"] ELSE D[x]]

CompleteUpdate2(D, T, t) ==
    [x \in DOMAIN D |->
        IF x \in JoinedDonations(T, t)
        THEN [D[x] EXCEPT !.status = "completed"] ELSE D[x]]

\* rows of Transactions t JOIN Donations d ON t.donation_id = d.donation_id
\*   JOIN Users donor ON d.donor_id = donor.user_id
\*   JOIN Users ngo ON t.ngo_id = ngo.user_id
JoinedTransactions(T, D) ==
    {t \in DOMAIN T : /\ T[t].donation_id \in DOMAIN D
                      /\ D[T[t].donation_id].donor_id \in Users
                      /\ T[t].ngo_id \in Users}

\* get_pending_pickups: ... WHERE t.status = 'pending' AND t.volunteer_id IS NULL
PendingPickupsAnyStatus(T, D) ==
    {t \in JoinedTransactions(T, D) : T[t].volunteer_id = NULL}

PendingPickups(T, D) ==
    {t \in JoinedTransactions(T, D) :
        T[t].status = "pending" /\ T[t].volunteer_id = NULL}

\* get_volunteer_assignments: ... WHERE t.volunteer_id = v
VolunteerAssignments(T, D, v) ==
    {t \in JoinedTransactions(T, D) : T[t].volunteer_id = v}

\* ------------------------------------- get_all_donations / search_donations
\* Text is a sequence of one-character strings.
\* s LIKE pat: % matches any run of characters, _ any one character
RECURSIVE Like(_, _)
Like(s, pat) ==
    IF pat = <<>> THEN s = <<>>
    ELSE IF Head(pat) = "%"
         THEN Like(s, Tail(pat)) \/ (s # <<>> /\ Like(Tail(s), pat))
         ELSE /\ s # <<>>
              /\ (Head(pat) = "_" \/ Head(pat) = Head(s))
              /\ Like(Tail(s), Tail(pat))

\* search_term = f"%{search_query}%"
SearchTerm(q) == <<"%">> \o q \o <<"%">>

\* ORDER BY d.created_at DESC: the ids of S, newest first; rows of one
\* created_at come in the order the store reads them (by donation_id)
RECURSIVE OrderByCreatedDesc(_, _)
OrderByCreatedDesc(D, S) ==
    IF S = {} THEN <<>>
    ELSE LET first == CHOOSE x \in S :
                         \A y \in S : \/ D[y].created_at < D[x].created_at
                                      \/ D[y].created_at = D[x].created_at /\ x <= y
         IN  <<first>> \o OrderByCreatedDesc(D, S \ {first})

\* FROM Donations d JOIN Users u ON d.donor_id = u.user_id
DonationsWithDonor(D) == {d \in DOMAIN D : D[d].donor_id \in Users}

\* get_all_donations(status): ... WHERE d.status = %s ORDER BY d.created_at DESC
GetAllDonations(D, st) ==
    OrderByCreatedDesc(D, {d \in DonationsWithDonor(D) : D[d].status = st})

\* search_donations(search_query, donation_type, status): the WHERE clause
\* grows by one condition per argument that is given
SearchDonationsAnyStatus(D, q, ty, st) ==
    OrderByCreatedDesc(D,
        {d \in DonationsWithDonor(D) :
            /\ q # <<>> => \/ Like(D[d].description, SearchTerm(q))
                           \/ Like(D[d].quantity, SearchTerm(q))
            /\ (ty # "" /\ ty # "all") => D[d].type = ty})

SearchDonations(D, q, ty, st) ==
    OrderByCreatedDesc(D,
        {d \in DonationsWithDonor(D) :
            /\ D[d].status = st
            /\ q # <<>> => \/ Like(D[d].description, SearchTerm(q))
                           \/ Like(D[d].quantity, SearchTerm(q))
            /\ (ty # "" /\ ty # "all") => D[d].type = ty})

\* ------------------------------------------------------ get_platform_stats
\* SELECT status, COUNT(*) FROM <table> GROUP BY status, as a dict
CountByStatus(R) ==
    [s \in {R[x].status : x \in DOMAIN R} |->
        Cardinality({x \in DOMAIN R : R[x].status = s})]

\* SELECT role, COUNT(*) FROM Users GROUP BY role, as a dict
CountByRole ==
    [r \in {Role[u] : u \in Users} |-> Cardinality({u \in Users : Role[u] = r})]

\* sum(d.values())
RECURSIVE SumValues(_, _)
SumValues(f, S) ==
    IF S = {} THEN 0
    ELSE LET k == CHOOSE x \in S : TRUE IN f[k] + SumValues(f, S \ {k})

Total(f) == SumValues(f, DOMAIN f)

\* d.get(k, 0)
Get(f, k) == IF k \in DOMAIN f THEN f[k] ELSE 0

\* round(num / den * 100, 1), in tenths of a percent (70.0 is 700); num is
\* 1000 * completed.  Python rounds an exact tie to the even digit, and for
\* totals below 80 every tie is an exactly representable float.
RoundTruncated(num, den) == num \div den

RoundTenths(num, den) ==
    LET q == num \div den
        r == num % den
    IN  IF 2 * r < den THEN q
        ELSE IF 2 * r > den THEN q + 1
        ELSE IF q % 2 = 0 THEN q ELSE q + 1

GetPlatformStats(D, T) ==
    LET byRole == CountByRole
        byD == CountByStatus(D)
        byT == CountByStatus(T)
        total == Total(byT)
    IN  [users_by_role |-> byRole,
         total_users |-> Total(byRole),
         donations_by_status |-> byD,
         total_donations |-> Total(byD),
         transactions_by_status |-> byT,
         total_transactions |-> total,
         completion_rate |->
            IF total > 0 THEN RoundTenths(1000 * Get(byT, "completed"), total)
                         ELSE 0]

\* UPDATE Users SET verified = TRUE WHERE user_id = u
VerifyUpdate(V, u) == V \cup (Users \cap {u})

\* ------------------------------------------- get_user_by_email / create_user
EmailsOf(R) == {R[u].email : u \in DOMAIN R}

\* SELECT * FROM Users WHERE email = e: whether a row came back
GetUserByEmail(R, e) == e \in EmailsOf(R)

\* the Users table's unique index on email: the INSERT of e is refused
DuplicateKeyUnchecked(R, e) == FALSE

DuplicateKey(R, e) == e \in EmailsOf(R)

\* INSERT INTO Users (name, email, password, phone, address, role, ...):
\* the columns kept are email and role
UserRow(f) == [email |-> f.email, role |-> f.role]

\* connection.commit(): the write set becomes the committed rows
CommitU(p) == Verified \cup proc[p].wU
CommitD(p) == proc[p].wD @@ Donations
CommitT(p) == proc[p].wT @@ Transactions
CommitR(p) == proc[p].wR @@ Registered

\* connection.close() with no commit: the server rolls the write set back
CloseLeaksD(p) == proc[p].wD @@ Donations

CloseD(p) == Donations
CloseT(p) == Transactions
CloseU(p) == Verified
CloseR(p) == Registered

\* ------------------------------------------------------------------ Init
Init ==
    /\ session = [p \in Procs |-> NoSession]
    /\ Registered = <<>>
    /\ nextUid = Cardinality(Users) + 1
    /\ Verified = {}
    /\ Donations = <<>>
    /\ Transactions = <<>>
    /\ nextDid = 1
    /\ nextTid = 1
    /\ now = 1
    /\ served = 0
    /\ proc = [p \in Procs |-> Idle]

\* ------------------------------------------------ post_donation / create_donation
BeginPost(p) ==
    /\ proc[p].pc \in {"idle", "done"}
    /\ served < MaxRequests
    /\ nextDid <= MaxDonations
    /\ \E u \in Users, f \in PostForms :
          /\ Allowed("post", u)
          /\ PostErrorsOf[f] = {}
          /\ proc' = [proc EXCEPT ![p] =
                        [Idle EXCEPT !.pc = "post_insert", !.op = "post", !.usr = u,
                                     !.form = f]]
    /\ served' = served + 1
    /\ UNCHANGED <<session, Registered, nextUid, Verified, Donations, Transactions, nextDid, nextTid, now>>

\* the form has errors: they are flashed and the page is rendered again
PostRejected(p) ==
    /\ proc[p].pc \in {"idle", "done"}
    /\ served < MaxRequests
    /\ \E u \in Users, f \in PostForms :
          /\ Allowed("post", u)
          /\ PostErrorsOf[f] # {}
          /\ proc' = [proc EXCEPT ![p] =
                        [Idle EXCEPT !.pc = "done", !.op = "post", !.usr = u,
                                     !.form = f]]
    /\ served' = served + 1
    /\ UNCHANGED <<session, Registered, nextUid, Verified, Donations, Transactions, nextDid, nextTid, now>>

PostInsert(p) ==
    /\ proc[p].pc = "post_insert"
    /\ nextDid <= MaxDonations
    /\ proc' = [proc EXCEPT ![p].pc = "post_commit",
                            ![p].arg = nextDid,
                            ![p].wD = (nextDid :> DonationRow(proc[p].usr)) @@ @,
                            ![p].lkD = @ \cup {nextDid}]
    /\ nextDid' = nextDid + 1
    /\ UNCHANGED <<session, Registered, nextUid, Verified, Donations, Transactions, nextTid, now, served>>

PostCommit(p) ==
    /\ proc[p].pc = "post_commit"
    /\ Donations' = CommitD(p)
    /\ Transactions' = CommitT(p)
    /\ proc' = [proc EXCEPT ![p].pc = "done", ![p].result = TRUE,
                            ![p].wD = <<>>, ![p].wT = <<>>,
                            ![p].lkD = {}, ![p].lkT = {}]
    /\ UNCHANGED <<session, Registered, nextUid, Verified, nextDid, nextTid, now, served>>

\* ------------------------------------------ claim_donation_route / claim_donation
BeginClaim(p) ==
    /\ proc[p].pc \in {"idle", "done"}
    /\ served < MaxRequests
    /\ nextTid <= MaxTxn
    /\ \E u \in Users, d \in DOMAIN Donations :
          /\ Allowed("claim", u)
          /\ proc' = [proc EXCEPT ![p] =
                        [Idle EXCEPT !.pc = "claim_update", !.op = "claim",
                                     !.usr = u, !.arg = d,
                                     !.snap = Donations[d].status]]
    /\ served' = served + 1
    /\ UNCHANGED <<session, Registered, nextUid, Verified, Donations, Transactions, nextDid, nextTid, now>>

ClaimUpdateStmt(p) ==
    /\ proc[p].pc = "claim_update"
    /\ FreeD(p, proc[p].arg)
    /\ LET new == ClaimUpdate(ViewD(p), proc[p].arg)
           w == Changed(Donations, new)
       IN proc' = [proc EXCEPT ![p].pc = "claim_insert",
                               ![p].rows = Cardinality(DOMAIN Changed(ViewD(p), new)),
                               ![p].wD = w,
                               ![p].lkD = @ \cup ({proc[p].arg} \cap DOMAIN Donations)]
    /\ UNCHANGED <<session, Registered, nextUid, Verified, Donations, Transactions, nextDid, nextTid, now, served>>

ClaimInsertStmt(p) ==
    /\ proc[p].pc = "claim_insert"
    /\ nextTid <= MaxTxn
    /\ proc' = [proc EXCEPT ![p].pc = "claim_commit",
                            ![p].wT = (nextTid :> TransactionRow(proc[p].arg, proc[p].usr)) @@ @,
                            ![p].lkT = @ \cup {nextTid}]
    /\ nextTid' = nextTid + 1
    /\ UNCHANGED <<session, Registered, nextUid, Verified, Donations, Transactions, nextDid, now, served>>

ClaimCommitDonationsOnly(p) ==
    /\ proc[p].pc = "claim_commit"
    /\ Donations' = CommitD(p)
    /\ Transactions' = Transactions
    /\ proc' = [proc EXCEPT ![p].pc = "done", ![p].result = TRUE,
                            ![p].wD = <<>>, ![p].wT = <<>>,
                            ![p].lkD = {}, ![p].lkT = {}]
    /\ UNCHANGED <<session, Registered, nextUid, Verified, nextDid, nextTid, now, served>>

ClaimCommit(p) ==
    /\ proc[p].pc = "claim_commit"
    /\ Donations' = CommitD(p)
    /\ Transactions' = CommitT(p)
    /\ proc' = [proc EXCEPT ![p].pc = "done", ![p].result = TRUE,
                            ![p].wD = <<>>, ![p].wT = <<>>,
                            ![p].lkD = {}, ![p].lkT = {}]
    /\ UNCHANGED <<session, Registered, nextUid, Verified, nextDid, nextTid, now, served>>

\* ------------------------------- accept_pickup / assign_volunteer_to_transaction
\* accept_pickup(): the route, up to its call of the storage function
AcceptPickup(p) ==
    /\ proc[p].pc \in {"idle", "done"}
    /\ \E u \in Users, t \in DOMAIN Transactions :
          /\ Allowed("assign", u)
          /\ proc' = [proc EXCEPT ![p] =
                        [Idle EXCEPT !.pc = "assign_update", !.op = "assign",
                                     !.usr = u, !.arg = t,
                                     !.snap = Transactions[t].status]]
    /\ UNCHANGED <<session, Registered, nextUid, Verified, Donations, Transactions, nextDid, nextTid, now>>

\* one of the MaxRequests requests of a run
BeginAssign(p) ==
    /\ served < MaxRequests
    /\ AcceptPickup(p)
    /\ served' = served + 1

AssignUpdateStmt(p) ==
    /\ proc[p].pc = "assign_update"
    /\ FreeT(p, proc[p].arg)
    /\ LET new == AssignUpdate(ViewT(p), proc[p].arg, proc[p].usr)
       IN proc' = [proc EXCEPT ![p].pc = "assign_commit",
                               ![p].rows = Cardinality(DOMAIN Changed(ViewT(p), new)),
                               ![p].wT = Changed(Transactions, new),
                               ![p].lkT = @ \cup ({proc[p].arg} \cap DOMAIN Transactions)]
    /\ UNCHANGED <<session, Registered, nextUid, Verified, Donations, Transactions, nextDid, nextTid, now, served>>

AssignCommitTouchesDonation(p) ==
    /\ proc[p].pc = "assign_commit"
    /\ Donations' = [d \in DOMAIN Donations |->
                        IF d \in JoinedDonations(Transactions, proc[p].arg)
                        THEN [Donations[d] EXCEPT !.status = "completed"]
                        ELSE Donations[d]]
    /\ Transactions' = CommitT(p)
    /\ proc' = [proc EXCEPT ![p].pc = "done", ![p].result = TRUE,
                            ![p].wD = <<>>, ![p].wT = <<>>,
                            ![p].lkD = {}, ![p].lkT = {}]
    /\ UNCHANGED <<session, Registered, nextUid, Verified, nextDid, nextTid, now, served>>

AssignCommit(p) ==
    /\ proc[p].pc = "assign_commit"
    /\ Donations' = CommitD(p)
    /\ Transactions' = CommitT(p)
    /\ proc' = [proc EXCEPT ![p].pc = "done", ![p].result = TRUE,
                            ![p].wD = <<>>, ![p].wT = <<>>,
                            ![p].lkD = {}, ![p].lkT = {}]
    /\ UNCHANGED <<session, Registered, nextUid, Verified, nextDid, nextTid, now, served>>

\* ------------------------------------------ complete_delivery / complete_transaction
\* complete_delivery(): the route, up to its call of the storage function
CompleteDelivery(p) ==
    /\ proc[p].pc \in {"idle", "done"}
    /\ \E u \in Users, t \in DOMAIN Transactions :
          /\ Allowed("complete", u)
          /\ proc' = [proc EXCEPT ![p] =
                        [Idle EXCEPT !.pc = "complete_update1", !.op = "complete",
                                     !.usr = u, !.arg = t,
                                     !.snap = Transactions[t].status,
                                     !.snapD = Donations[Transactions[t].donation_id].status]]
    /\ UNCHANGED <<session, Registered, nextUid, Verified, Donations, Transactions, nextDid, nextTid, now>>

\* one of the MaxRequests requests of a run
BeginComplete(p) ==
    /\ served < MaxRequests
    /\ CompleteDelivery(p)
    /\ served' = served + 1

CompleteUpdate1Stmt(p) ==
    /\ proc[p].pc = "complete_update1"
    /\ FreeT(p, proc[p].arg)
    /\ \E clock \in now..MaxClock :
          /\ now' = clock
          /\ LET new == CompleteUpdate1(ViewT(p), proc[p].arg, clock)
             IN proc' = [proc EXCEPT
                          ![p].pc = "complete_update2",
                          ![p].rows = Cardinality(DOMAIN Changed(ViewT(p), new)),
                          ![p].wT = Changed(Transactions, new),
                          ![p].lkT = @ \cup ({proc[p].arg} \cap DOMAIN Transactions)]
    /\ UNCHANGED <<session, Registered, nextUid, Verified, Donations, Transactions, nextDid, nextTid, served>>

CompleteUpdate2Stmt(p) ==
    /\ proc[p].pc = "complete_update2"
    /\ \A d \in JoinedDonations(ViewT(p), proc[p].arg) : FreeD(p, d)
    /\ LET new == CompleteUpdate2(ViewD(p), ViewT(p), proc[p].arg)
       IN proc' = [proc EXCEPT ![p].pc = "complete_commit",
                               ![p].rows = Cardinality(DOMAIN Changed(ViewD(p), new)),
                               ![p].wD = Changed(Donations, new),
                               ![p].lkD = @ \cup JoinedDonations(ViewT(p), proc[p].arg)]
    /\ UNCHANGED <<session, Registered, nextUid, Verified, Donations, Transactions, nextDid, nextTid, now, served>>

CompleteCommit(p) ==
    /\ proc[p].pc = "complete_commit"
    /\ Donations' = CommitD(p)
    /\ Transactions' = CommitT(p)
    /\ proc' = [proc EXCEPT ![p].pc = "done", ![p].result = TRUE,
                            ![p].wD = <<>>, ![p].wT = <<>>,
                            ![p].lkD = {}, ![p].lkT = {}]
    /\ UNCHANGED <<session, Registered, nextUid, Verified, nextDid, nextTid, now, served>>

\* ------------------------------------------------ verify_ngo_route / verify_ngo
BeginVerify(p) ==
    /\ proc[p].pc \in {"idle", "done"}
    /\ served < MaxRequests
    /\ \E a \in Users, u \in Users :
          /\ Allowed("verify", a)
          /\ proc' = [proc EXCEPT ![p] =
                        [Idle EXCEPT !.pc = "verify_update", !.op = "verify",
                                     !.usr = a, !.arg = u,
                                     !.snap = IF u \in Verified THEN "verified"
                                                                ELSE "unverified"]]
    /\ served' = served + 1
    /\ UNCHANGED <<session, Registered, nextUid, Verified, Donations, Transactions, nextDid, nextTid, now>>

VerifyUpdateStmt(p) ==
    /\ proc[p].pc = "verify_update"
    /\ FreeU(p, proc[p].arg)
    /\ LET new == VerifyUpdate(Verified \cup proc[p].wU, proc[p].arg)
       IN proc' = [proc EXCEPT ![p].pc = "verify_commit",
                               ![p].rows = Cardinality(new \ (Verified \cup proc[p].wU)),
                               ![p].wU = new \ Verified,
                               ![p].lkU = @ \cup (Users \cap {proc[p].arg})]
    /\ UNCHANGED <<session, Registered, nextUid, Verified, Donations, Transactions, nextDid, nextTid, now, served>>

VerifyCommit(p) ==
    /\ proc[p].pc = "verify_commit"
    /\ Verified' = CommitU(p)
    /\ Donations' = CommitD(p)
    /\ Transactions' = CommitT(p)
    /\ proc' = [proc EXCEPT ![p].pc = "done", ![p].result = TRUE,
                            ![p].wD = <<>>, ![p].wT = <<>>, ![p].wU = {},
                            ![p].lkD = {}, ![p].lkT = {}, ![p].lkU = {}]
    /\ UNCHANGED <<session, Registered, nextUid, nextDid, nextTid, now, served>>

\* ------------------------------------------------- register / create_user
\* the route validates the form, looking the email up on a connection of
\* its own (a lookup that raises Error finds nothing), then calls create_user
BeginRegister(p) ==
    /\ proc[p].pc \in {"idle", "done"}
    /\ served < MaxRequests
    /\ \E f \in RegisterForms :
          LET found == GetUserByEmail(Registered, f.email)
          IN  \E existing \in {found, FALSE} :
                /\ RegisterErrorsOf[f][existing] = {}
                /\ proc' = [proc EXCEPT ![p] =
                              [Idle EXCEPT !.pc = "register_insert", !.op = "register",
                                           !.form = f,
                                           !.snap = IF found THEN "taken" ELSE "free"]]
    /\ served' = served + 1
    /\ UNCHANGED <<session, Registered, nextUid, Verified, Donations, Transactions,
                   nextDid, nextTid, now>>

\* the form has errors: they are flashed and the page is rendered again
RegisterRejected(p) ==
    /\ proc[p].pc \in {"idle", "done"}
    /\ served < MaxRequests
    /\ \E f \in RegisterForms :
          LET found == GetUserByEmail(Registered, f.email)
          IN  \E existing \in {found, FALSE} :
                /\ RegisterErrorsOf[f][existing] # {}
                /\ proc' = [proc EXCEPT ![p] =
                              [Idle EXCEPT !.pc = "done", !.op = "register",
                                           !.form = f,
                                           !.snap = IF found THEN "taken" ELSE "free"]]
    /\ served' = served + 1
    /\ UNCHANGED <<session, Registered, nextUid, Verified, Donations, Transactions,
                   nextDid, nextTid, now>>

\* cursor.execute(INSERT INTO Users ...): waits while another connection
\* holds an uncommitted row of the same email; a duplicate raises Error,
\* which create_user answers with connection.close() and None
RegisterInsert(p) ==
    /\ proc[p].pc = "register_insert"
    /\ \A q \in Procs \ {p} : proc[p].form.email \notin EmailsOf(proc[q].wR)
    /\ IF DuplicateKey(Registered, proc[p].form.email)
       THEN proc' = [proc EXCEPT ![p].pc = "done", ![p].result = FALSE,
                                 ![p].err = TRUE]
       ELSE proc' = [proc EXCEPT ![p].pc = "register_commit",
                                 ![p].arg = nextUid,
                                 ![p].wR = (nextUid :> UserRow(proc[p].form)) @@ @]
    /\ nextUid' = nextUid + 1
    /\ UNCHANGED <<session, Registered, Verified, Donations, Transactions,
                   nextDid, nextTid, now, served>>

RegisterCommit(p) ==
    /\ proc[p].pc = "register_commit"
    /\ Registered' = CommitR(p)
    /\ proc' = [proc EXCEPT ![p].pc = "done", ![p].result = TRUE, ![p].wR = <<>>]
    /\ UNCHANGED <<session, nextUid, Verified, Donations, Transactions,
                   nextDid, nextTid, now, served>>

\* ------------------------------------------ a route turns the session away
\* return redirect(...) before any storage call
Denied(p) ==
    /\ proc[p].pc \in {"idle", "done"}
    /\ served < MaxRequests
    /\ \E route \in DOMAIN RouteRoles, s \in Users \cup {NULL} :
          /\ ~Allowed(route, s)
          /\ proc' = [proc EXCEPT ![p] =
                        [Idle EXCEPT !.pc = "done", !.op = route, !.usr = s,
                                     !.denied = TRUE]]
    /\ served' = served + 1
    /\ UNCHANGED <<session, Registered, nextUid, Verified, Donations, Transactions,
                   nextDid, nextTid, now>>

\* ------------------------------------------------------------ error path
\* positions inside the try block, where cursor.execute / commit can raise Error
TryPcs == {"register_insert", "register_commit",
           "verify_update", "verify_commit",
           "post_insert", "post_commit",
           "claim_update", "claim_insert", "claim_commit",
           "assign_update", "assign_commit",
           "complete_update1", "complete_update2", "complete_commit"}

\* a statement raises Error: except Error: connection.close(); return False / None
Fail(p) ==
    /\ proc[p].pc \in TryPcs
    /\ Verified' = CloseU(p)
    /\ Donations' = CloseD(p)
    /\ Transactions' = CloseT(p)
    /\ Registered' = CloseR(p)
    /\ proc' = [proc EXCEPT ![p].pc = "done", ![p].result = FALSE, ![p].err = TRUE,
                            ![p].wD = <<>>, ![p].wT = <<>>, ![p].wU = {},
                            ![p].wR = <<>>,
                            ![p].lkD = {}, ![p].lkT = {}, ![p].lkU = {}]
    /\ UNCHANGED <<session, nextUid, nextDid, nextTid, now, served>>

\* ------------------------------------------- no connection to the store
\* get_db_connection() returns None; "if not connection: return ..." of
\* each function, by the route that calls it
NoConnectionResultClaimTrue ==
    [claim |-> TRUE, assign |-> FALSE, complete |-> FALSE, verify |-> FALSE,
     register |-> NULL, post |-> NULL, search |-> <<>>, list |-> <<>>, stats |-> <<>>]

NoConnectionResult ==
    [claim |-> FALSE, assign |-> FALSE, complete |-> FALSE, verify |-> FALSE,
     register |-> NULL, post |-> NULL, search |-> <<>>, list |-> <<>>, stats |-> <<>>]

\* the position of a call that has not yet asked for its connection
FirstPcs == {"register_insert", "verify_update", "post_insert",
             "claim_update", "assign_update", "complete_update1"}

\* claim_donation, assign_volunteer_to_transaction, complete_transaction,
\* verify_ngo, create_user, create_donation without a connection
ConnectFails(p) ==
    /\ proc[p].pc \in FirstPcs
    /\ proc' = [proc EXCEPT ![p].pc = "done", ![p].conn = FALSE, ![p].err = TRUE,
                            ![p].result = NoConnectionResult[proc[p].op]]
    /\ UNCHANGED <<session, Registered, nextUid, Verified, Donations, Transactions,
                   nextDid, nextTid, now, served>>

\* search_donations, get_all_donations, get_platform_stats without a
\* connection
QueryConnectFails(p) ==
    /\ proc[p].pc \in {"idle", "done"}
    /\ served < MaxRequests
    /\ \E op \in {"search", "list", "stats"} :
          proc' = [proc EXCEPT ![p] =
                     [Idle EXCEPT !.pc = "done", !.op = op, !.conn = FALSE,
                                  !.err = TRUE, !.result = NoConnectionResult[op]]]
    /\ served' = served + 1
    /\ UNCHANGED <<session, Registered, nextUid, Verified, Donations, Transactions,
                   nextDid, nextTid, now>>

Next ==
    \E p \in Procs :
          \/ BeginPost(p) \/ PostInsert(p) \/ PostCommit(p)
          \/ BeginClaim(p) \/ ClaimUpdateStmt(p) \/ ClaimInsertStmt(p) \/ ClaimCommit(p)
          \/ BeginAssign(p) \/ AssignUpdateStmt(p) \/ AssignCommit(p)
          \/ BeginComplete(p) \/ CompleteUpdate1Stmt(p) \/ CompleteUpdate2Stmt(p)
          \/ CompleteCommit(p)
          \/ Fail(p)

Spec == Init /\ [][Next]_vars

\* registration alone
NextRegister ==
    \E p \in Procs :
        \/ BeginRegister(p) \/ RegisterRejected(p)
        \/ RegisterInsert(p) \/ RegisterCommit(p)
        \/ Fail(p)

SpecRegister == Init /\ [][NextRegister]_vars

\* posting alone, with the forms the route turns down
NextPost ==
    \E p \in Procs :
        BeginPost(p) \/ PostRejected(p) \/ PostInsert(p) \/ PostCommit(p) \/ Fail(p)

SpecPost == Init /\ [][NextPost]_vars

\* ------------------------------------------------------ volunteer_pickups
\* the route runs two queries, each on a connection of its own; a query
\* that raises Error returns the empty list
BeginPickups(p) ==
    /\ proc[p].pc \in {"idle", "done"}
    /\ served < MaxRequests
    /\ \E u \in Users :
          /\ Role[u] = "volunteer"
          /\ proc' = [proc EXCEPT ![p] =
                        [Idle EXCEPT !.pc = "pickups_pending", !.op = "pickups",
                                     !.usr = u,
                                     !.result = [pending |-> {}, mine |-> {}]]]
    /\ served' = served + 1
    /\ UNCHANGED <<session, Registered, nextUid, Verified, Donations, Transactions, nextDid, nextTid, now>>

PendingQuery(p) ==
    /\ proc[p].pc = "pickups_pending"
    /\ \/ proc' = [proc EXCEPT ![p].pc = "pickups_assignments",
                               ![p].result.pending =
                                   PendingPickups(Transactions, Donations)]
       \/ proc' = [proc EXCEPT ![p].pc = "pickups_assignments", ![p].err = TRUE]
    /\ UNCHANGED <<session, Registered, nextUid, Verified, Donations, Transactions, nextDid, nextTid, now, served>>

AssignmentsQuery(p) ==
    /\ proc[p].pc = "pickups_assignments"
    /\ \/ proc' = [proc EXCEPT ![p].pc = "done",
                               ![p].result.mine =
                                   VolunteerAssignments(Transactions, Donations,
                                                        proc[p].usr)]
       \/ proc' = [proc EXCEPT ![p].pc = "done", ![p].err = TRUE]
    /\ UNCHANGED <<session, Registered, nextUid, Verified, Donations, Transactions, nextDid, nextTid, now, served>>

\* the lifecycle together with the volunteers' work-queue page
NextQueue ==
    \/ Next
    \/ \E p \in Procs :
          BeginPickups(p) \/ PendingQuery(p) \/ AssignmentsQuery(p)

SpecQueue == Init /\ [][NextQueue]_vars

\* ------------------------------------------------- dashboard (administrator)
\* a store holding a pending, b in_progress and c completed Transactions,
\* each claimed from a Donation of its own
StatsTransactions(a, b, c) ==
    [t \in 1..(a + b + c) |->
        IF t <= a THEN TransactionRow(t, 2)
        ELSE IF t <= a + b
             THEN [TransactionRow(t, 2) EXCEPT !.volunteer_id = 4,
                                                !.status = "in_progress"]
             ELSE [TransactionRow(t, 2) EXCEPT !.volunteer_id = 4,
                                                !.status = "completed",
                                                !.completed_at = 1]]

StatsDonations(a, b, c) ==
    [d \in 1..(a + b + c) |->
        [DonationRow(1) EXCEPT !.status = IF d <= a + b THEN "claimed"
                                                        ELSE "completed"]]

InitStats ==
    /\ session = [p \in Procs |-> NoSession]
    /\ Registered = <<>>
    /\ nextUid = Cardinality(Users) + 1
    /\ Verified = {}
    /\ \E a, b, c \in 0..MaxCount :
          /\ Transactions = StatsTransactions(a, b, c)
          /\ Donations = StatsDonations(a, b, c)
          /\ nextDid = a + b + c + 1
          /\ nextTid = a + b + c + 1
    /\ now = 1
    /\ served = 0
    /\ proc = [p \in Procs |-> Idle]

\* dashboard(): an administrator's page calls get_platform_stats();
\* on Error the function returns the empty dict
AdminDashboard(p) ==
    /\ proc[p].pc \in {"idle", "done"}
    /\ served < MaxRequests
    /\ \E a \in Users :
          /\ Role[a] = "admin"
          /\ \/ proc' = [proc EXCEPT ![p] =
                           [Idle EXCEPT !.pc = "done", !.op = "stats", !.usr = a,
                                        !.result = GetPlatformStats(Donations,
                                                                    Transactions)]]
             \/ proc' = [proc EXCEPT ![p] =
                           [Idle EXCEPT !.pc = "done", !.op = "stats", !.usr = a,
                                        !.result = <<>>, !.err = TRUE]]
    /\ served' = served + 1
    /\ UNCHANGED <<session, Registered, nextUid, Verified, Donations, Transactions, nextDid, nextTid, now>>

NextStats == \E p \in Procs : AdminDashboard(p)

SpecStats == InitStats /\ [][NextStats]_vars

\* ------------------------------------------------ the donations catalogue
\* stores of up to MaxRows Donations with the columns the catalogue reads;
\* created_at never decreases along donation_id and may repeat
Descriptions == {<<"a", "b">>, <<"b">>}
Quantities == {<<"a">>, <<"c">>}
Types == {"food", "clothes"}

SearchRows ==
    [donor_id : {1}, status : {"available", "claimed"}, type : Types,
     description : Descriptions, quantity : Quantities, created_at : 1..MaxRows]

InitSearch ==
    /\ session = [p \in Procs |-> NoSession]
    /\ Registered = <<>>
    /\ nextUid = Cardinality(Users) + 1
    /\ Verified = {}
    /\ \E n \in 0..MaxRows :
          /\ Donations \in [1..n -> SearchRows]
          /\ \A d \in 1..n :
                /\ Donations[d].created_at <= d
                /\ d > 1 => /\ Donations[d - 1].created_at <= Donations[d].created_at
                            /\ Donations[d].created_at <= Donations[d - 1].created_at + 1
          /\ nextDid = n + 1
    /\ Transactions = <<>>
    /\ nextTid = 1
    /\ now = 1
    /\ served = 0
    /\ proc = [p \in Procs |-> Idle]

\* the arguments a catalogue call is made with
Queries == {<<>>, <<"a">>, <<"_">>}
TypeFilters == {"all", "food", ""}

\* a call of search_donations; on Error it returns the empty list.  The
\* store does not change here, so each request slot makes one call.
SearchCall(p) ==
    /\ proc[p].pc = "idle"
    /\ served < MaxRequests
    /\ \E q \in Queries, ty \in TypeFilters :
          LET call == [Idle EXCEPT !.pc = "done", !.op = "search",
                                   !.arg = [query |-> q, type |-> ty,
                                            status |-> "available"]]
          IN  \/ proc' = [proc EXCEPT ![p] =
                            [call EXCEPT !.result =
                                SearchDonations(Donations, q, ty, "available")]]
              \/ proc' = [proc EXCEPT ![p] =
                            [call EXCEPT !.result = <<>>, !.err = TRUE]]
    /\ served' = served + 1
    /\ UNCHANGED <<session, Registered, nextUid, Verified, Donations, Transactions, nextDid, nextTid, now>>

\* a call of get_all_donations; on Error it returns the empty list
ListCall(p) ==
    /\ proc[p].pc = "idle"
    /\ served < MaxRequests
    /\ \E st \in {"available", "claimed"} :
          LET call == [Idle EXCEPT !.pc = "done", !.op = "list",
                                   !.arg = [status |-> st]]
          IN  \/ proc' = [proc EXCEPT ![p] =
                            [call EXCEPT !.result = GetAllDonations(Donations, st)]]
              \/ proc' = [proc EXCEPT ![p] =
                            [call EXCEPT !.result = <<>>, !.err = TRUE]]
    /\ served' = served + 1
    /\ UNCHANGED <<session, Registered, nextUid, Verified, Donations, Transactions, nextDid, nextTid, now>>

NextSearch == \E p \in Procs : SearchCall(p) \/ ListCall(p)

SpecSearch == InitSearch /\ [][NextSearch]_vars

\* the lifecycle together with the administrator's verify-ngo requests
NextAdmin ==
    \/ Next
    \/ \E p \in Procs :
          BeginVerify(p) \/ VerifyUpdateStmt(p) \/ VerifyCommit(p)

SpecAdmin == Init /\ [][NextAdmin]_vars

\* every mutating route, with the sessions it turns away
NextGate ==
    \/ NextAdmin
    \/ \E p \in Procs : Denied(p)

SpecGate == Init /\ [][NextGate]_vars

\* every operation on the lifecycle's store: the lifecycle, verify-ngo,
\* registration, the work-queue page and the statistics
NextFrame ==
    \/ NextAdmin
    \/ \E p \in Procs :
          \/ BeginRegister(p) \/ RegisterRejected(p)
          \/ RegisterInsert(p) \/ RegisterCommit(p)
          \/ BeginPickups(p) \/ PendingQuery(p) \/ AssignmentsQuery(p)
          \/ AdminDashboard(p)

SpecFrame == Init /\ [][NextFrame]_vars

\* every call on the store, each with the outcome of an unreachable store
NextOutage ==
    \/ NextAdmin
    \/ \E p \in Procs :
          \/ BeginRegister(p) \/ RegisterInsert(p) \/ RegisterCommit(p)
          \/ ConnectFails(p) \/ QueryConnectFails(p)

SpecOutage == Init /\ [][NextOutage]_vars

\* ------------------------------------------- create_donation: the columns
\* None in a parameter that holds text (stored as NULL)
NoText == <<"None">>

\* request.form.get('pickup_time') or None, likewise expiry_date;
\* request.form.get('notes', '').strip()
OptionalPostFields(raw) ==
    [pickup_time |-> IF raw.pickup_time = <<>> THEN NoText ELSE raw.pickup_time,
     expiry_date |-> IF raw.expiry_date = <<>> THEN NoText ELSE raw.expiry_date,
     notes |-> Strip(raw.notes)]

\* the optional fields a browser submits
RawOptionalPostForms ==
    [pickup_time : {<<>>, <<"9", "a", "m">>},
     expiry_date : {<<>>, <<"1", "2", "-", "3", "1">>},
     notes : {<<>>, <<" ">>, <<" ", "n", "b", " ">>}]

OptionalPostForms == {OptionalPostFields(raw) : raw \in RawOptionalPostForms}

\* INSERT INTO Donations (donor_id, type, description, quantity,
\* pickup_address, pickup_time, expiry_date, status) VALUES (..., 'available'):
\* the row stored
CreateDonation(donor_id, donation_type, description, quantity, pickup_address, pickup_time, expiry_date, notes) ==
    [donor_id |-> donor_id, type |-> donation_type, description |-> description,
     quantity |-> quantity, pickup_address |-> pickup_address,
     pickup_time |-> pickup_time, expiry_date |-> expiry_date,
     status |-> "available"]

\* post_donation(), POST, of a form without errors: create_donation inserts
\* the row and commits, or raises Error and returns None
PostDonation(p) ==
    /\ proc[p].pc \in {"idle", "done"}
    /\ served < MaxRequests
    /\ nextDid <= MaxDonations
    /\ \E u \in Users, f \in PostForms, o \in OptionalPostForms :
          /\ Allowed("post", u)
          /\ PostErrorsOf[f] = {}
          /\ LET call == [Idle EXCEPT !.pc = "done", !.op = "post", !.usr = u,
                                      !.form = f @@ o, !.arg = nextDid]
                 row == CreateDonation(u, f.type, f.description, f.quantity,
                                       f.pickup_address, o.pickup_time,
                                       o.expiry_date, o.notes)
             IN  \/ /\ Donations' = (nextDid :> row) @@ Donations
                    /\ proc' = [proc EXCEPT ![p] = [call EXCEPT !.result = TRUE]]
                 \/ /\ proc' = [proc EXCEPT ![p] = [call EXCEPT !.err = TRUE]]
                    /\ UNCHANGED Donations
    /\ nextDid' = nextDid + 1
    /\ served' = served + 1
    /\ UNCHANGED <<session, Registered, nextUid, Verified, Transactions, nextTid, now>>

NextCreate == \E p \in Procs : PostDonation(p) \/ PostRejected(p)

SpecCreate == Init /\ [][NextCreate]_vars

\* ------------------------------------------- the volunteers keep asking
\* a store in which one Donation has been claimed: its Transaction is pending
InitLive ==
    /\ session = [p \in Procs |-> NoSession]
    /\ Registered = <<>>
    /\ nextUid = Cardinality(Users) + 1
    /\ Verified = {}
    /\ Donations = (1 :> [DonationRow(1) EXCEPT !.status = "claimed"])
    /\ Transactions = (1 :> TransactionRow(1, 2))
    /\ nextDid = 2
    /\ nextTid = 2
    /\ now = 1
    /\ served = 0
    /\ proc = [p \in Procs |-> Idle]

\* the Transactions the claims have created
Claimed == {1}

\* complete_transaction is passed the transaction id alone: which volunteer
\* asks makes no difference to it
Deliverer == CHOOSE u \in Users : Allowed("complete", u)

\* accept-pickup and complete-delivery requests without end, each statement
\* of which may raise Error
NextLive ==
    \E p \in Procs :
        \/ AcceptPickup(p) /\ UNCHANGED served
        \/ AssignUpdateStmt(p) \/ AssignCommit(p)
        \/ CompleteDelivery(p) /\ proc'[p].usr = Deliverer /\ UNCHANGED served
        \/ CompleteUpdate1Stmt(p) \/ CompleteUpdate2Stmt(p) \/ CompleteCommit(p)
        \/ Fail(p)

\* A request that was received runs on: the server gives every request a
\* thread of its own.  A complete-delivery request for each Transaction
\* arrives again and again; a statement waiting for a row lock is granted it
\* when its turn in the lock queue comes; and the store does not go on
\* raising Error in complete_transaction for ever.
Fairness ==
    /\ <>[][\A p \in Procs : proc[p].op = "complete" => ~Fail(p)]_vars
    /\ \A p \in Procs :
          /\ WF_vars(AssignUpdateStmt(p))
          /\ WF_vars(AssignCommit(p))
          /\ SF_vars(CompleteUpdate1Stmt(p))
          /\ SF_vars(CompleteUpdate2Stmt(p))
          /\ SF_vars(CompleteCommit(p))
    /\ \A t \in Claimed :
          SF_vars(\E p \in Procs :
                     /\ CompleteDelivery(p) /\ UNCHANGED served
                     /\ proc'[p].usr = Deliverer /\ proc'[p].arg = t)

SpecLive == InitLive /\ [][NextLive]_vars /\ Fairness

\* ------------------------------------------------------------ credentials
\* generate_password_hash / check_password_hash: the stored value is not the
\* password, and checks against the password it was made from
GeneratePasswordHash(pw) == <<"#">> \o pw

CheckPasswordHash(h, pw) == h = GeneratePasswordHash(pw)

\* verify_user: SELECT * FROM Users WHERE email = e, then the hash check;
\* the user_id of the row returned, NULL for None
VerifyUserIgnoresPassword(R, e, pw) ==
    LET found == {u \in DOMAIN R : R[u].email = e}
    IN  IF found = {} THEN NULL
        ELSE CHOOSE x \in found : \A y \in found : x <= y

VerifyUser(R, e, pw) ==
    LET found == {u \in DOMAIN R : R[u].email = e}
    IN  IF found = {} THEN NULL
        ELSE LET u == CHOOSE x \in found : \A y \in found : x <= y
             IN  IF CheckPasswordHash(R[u].password, pw) THEN u ELSE NULL

\* UPDATE Users SET name, phone, address WHERE user_id = u
UpdateUserProfile(R, u, name, phone, address) ==
    [x \in DOMAIN R |->
        IF x = u THEN [R[x] EXCEPT !.name = name, !.phone = phone, !.address = address]
                 ELSE R[x]]

\* UPDATE Users SET password = <hash of pw> WHERE user_id = u
ChangeUserPassword(R, u, pw) ==
    [x \in DOMAIN R |->
        IF x = u THEN [R[x] EXCEPT !.password = GeneratePasswordHash(pw)] ELSE R[x]]

\* --------------------------------------------------- the users' accounts
\* a store in which the six users have registered and one Donation has
\* been claimed
UserDigit == <<"1", "2", "3", "4", "5", "6">>
Email == [u \in Users |-> <<"u", UserDigit[u]>>]
FirstPassword == <<"o", "l", "d", "p", "w", "1">>

AccountRow(u) ==
    [email |-> Email[u], role |-> Role[u], name |-> <<"A", "n", "n">>,
     phone |-> TenDigits, address |-> <<>>,
     password |-> GeneratePasswordHash(FirstPassword)]

InitSession ==
    /\ session = [p \in Procs |-> NoSession]
    /\ Registered = [u \in Users |-> AccountRow(u)]
    /\ nextUid = Cardinality(Users) + 1
    /\ Verified = {}
    /\ Donations = (1 :> [DonationRow(1) EXCEPT !.status = "claimed"])
    /\ Transactions = (1 :> TransactionRow(1, 2))
    /\ nextDid = 2
    /\ nextTid = 2
    /\ now = 1
    /\ served = 0
    /\ proc = [p \in Procs |-> Idle]

\* ----------------------------------------------------------------- login
LoginFields(raw) == [email |-> Lower(Strip(raw.email)), password |-> raw.password]

\* forms a browser submits: each user's own credentials, and for the donor
\* a padded upper-case email, a wrong password, no password and an
\* unknown email
RawLoginForms ==
    {[email |-> Email[u], password |-> FirstPassword] : u \in Users}
    \cup {[email |-> <<" ", "U", "1", " ">>, password |-> FirstPassword],
          [email |-> Email[1], password |-> <<"o", "l", "d", "p", "w", "2">>],
          [email |-> Email[1], password |-> <<>>],
          [email |-> <<"u", "9">>, password |-> FirstPassword]}

LoginForms == {LoginFields(raw) : raw \in RawLoginForms}

\* session['user_id'], ['email'], ['fullname'], ['role'] of the row found
SessionOf(R, u) ==
    [user_id |-> u, email |-> R[u].email, fullname |-> R[u].name, role |-> R[u].role]

\* login(): verify_user runs on a connection of its own and returns None
\* when the store raises Error
Login(p) ==
    /\ proc[p].pc \in {"idle", "done"}
    /\ served < MaxRequests
    /\ \E f \in LoginForms :
          \E user \in {VerifyUser(Registered, f.email, f.password), NULL} :
             LET call == [Idle EXCEPT !.pc = "done", !.op = "login", !.form = f,
                                      !.arg = user]
             IN  IF f.email = <<>> \/ f.password = <<>> \/ user = NULL
                 THEN /\ proc' = [proc EXCEPT ![p] = call]
                      /\ UNCHANGED session
                 ELSE /\ proc' = [proc EXCEPT ![p] = [call EXCEPT !.result = TRUE,
                                                                  !.usr = user]]
                      /\ session' = [session EXCEPT ![p] = SessionOf(Registered, user)]
    /\ served' = served + 1
    /\ UNCHANGED <<Registered, nextUid, Verified, Donations, Transactions,
                   nextDid, nextTid, now>>

\* logout(): session.clear()
Logout(p) ==
    /\ proc[p].pc \in {"idle", "done"}
    /\ served < MaxRequests
    /\ session' = [session EXCEPT ![p] = NoSession]
    /\ proc' = [proc EXCEPT ![p] = [Idle EXCEPT !.pc = "done", !.op = "logout"]]
    /\ served' = served + 1
    /\ UNCHANGED <<Registered, nextUid, Verified, Donations, Transactions,
                   nextDid, nextTid, now>>

\* ---------------------------------------------------------- edit_profile
EditProfileFields(raw) ==
    [name |-> Strip(raw.name), phone |-> Strip(raw.phone), address |-> Strip(raw.address)]

\* the errors list the route builds
EditProfileErrors(f) ==
    {e \in {"name", "phone", "address"} :
        \/ e = "name" /\ (f.name = <<>> \/ Len(f.name) < 3)
        \/ e = "phone" /\ (f.phone = <<>> \/ Len(f.phone) # 10 \/ ~IsDigit(f.phone))
        \/ e = "address" /\ (f.address = <<>> \/ Len(f.address) < 10)}

\* forms a browser submits
RawEditProfileForms ==
    {[name |-> n, phone |-> TenDigits, address |-> TenChars] :
        n \in {<<"B", "o", "b">>, <<" ", "B", "o", " ">>}}
    \cup {[name |-> <<"B", "o", "b">>, phone |-> SubSeq(TenDigits, 1, 9),
           address |-> TenChars],
          [name |-> <<"B", "o", "b">>, phone |-> TenDigits,
           address |-> <<"h", "o", "m", "e">>]}

EditProfileForms == {EditProfileFields(raw) : raw \in RawEditProfileForms}

\* edit_profile(), POST: a form with errors is rendered again
BeginEditProfile(p) ==
    /\ proc[p].pc \in {"idle", "done"}
    /\ served < MaxRequests
    /\ session[p] # NoSession
    /\ \E f \in EditProfileForms :
          proc' = [proc EXCEPT ![p] =
                     [Idle EXCEPT !.pc = IF EditProfileErrors(f) = {}
                                         THEN "profile_update" ELSE "done",
                                  !.op = "edit_profile",
                                  !.usr = session[p].user_id, !.form = f]]
    /\ served' = served + 1
    /\ UNCHANGED <<session, Registered, nextUid, Verified, Donations, Transactions,
                   nextDid, nextTid, now>>

\* success = update_user_profile(session['user_id'], name, phone, address);
\* on success session['fullname'] = name
EditProfileUpdateSetsEmail(p) ==
    /\ proc[p].pc = "profile_update"
    /\ LET f == proc[p].form
       IN  /\ Registered' =
                 [UpdateUserProfile(Registered, proc[p].usr, f.name, f.phone, f.address)
                     EXCEPT ![proc[p].usr].email = f.name]
           /\ session' = [session EXCEPT ![p].fullname = f.name]
           /\ proc' = [proc EXCEPT ![p].pc = "done", ![p].result = TRUE]
    /\ UNCHANGED <<nextUid, Verified, Donations, Transactions,
                   nextDid, nextTid, now, served>>

EditProfileUpdate(p) ==
    /\ proc[p].pc = "profile_update"
    /\ LET f == proc[p].form
       IN  \/ /\ Registered' = UpdateUserProfile(Registered, proc[p].usr,
                                                 f.name, f.phone, f.address)
              /\ session' = [session EXCEPT ![p].fullname = f.name]
              /\ proc' = [proc EXCEPT ![p].pc = "done", ![p].result = TRUE]
           \/ /\ proc' = [proc EXCEPT ![p].pc = "done", ![p].err = TRUE]
              /\ UNCHANGED <<session, Registered>>
    /\ UNCHANGED <<nextUid, Verified, Donations, Transactions,
                   nextDid, nextTid, now, served>>

\* ------------------------------------------------------- change_password
\* the errors list the route builds; verified is what verify_user returned
\* for session['email'] and the current password
ChangePasswordErrors(f, verified) ==
    {e \in {"required", "current", "length", "digit", "match", "same"} :
        \/ e = "required" /\ <<>> \in {f.current_password, f.new_password,
                                       f.confirm_password}
        \/ e = "current" /\ ~verified
        \/ e = "length" /\ f.new_password # <<>> /\ Len(f.new_password) < 6
        \/ e = "digit" /\ f.new_password # <<>>
              /\ ~\E i \in 1..Len(f.new_password) : f.new_password[i] \in Digits
        \/ e = "match" /\ f.new_password # f.confirm_password
        \/ e = "same" /\ f.current_password = f.new_password}

\* forms a browser submits
SecondPassword == <<"n", "e", "w", "p", "w", "2">>
ChangePasswordForms ==
    {[current_password |-> c, new_password |-> SecondPassword,
      confirm_password |-> SecondPassword] : c \in {FirstPassword, SecondPassword}}
    \cup {[current_password |-> FirstPassword, new_password |-> n,
           confirm_password |-> n] :
             n \in {FirstPassword, <<"n", "e", "w", "2">>,
                    <<"n", "e", "w", "p", "w", "d">>}}
    \cup {[current_password |-> FirstPassword, new_password |-> SecondPassword,
           confirm_password |-> FirstPassword]}

\* change_password(), POST: a form with errors is rendered again
BeginChangePassword(p) ==
    /\ proc[p].pc \in {"idle", "done"}
    /\ served < MaxRequests
    /\ session[p] # NoSession
    /\ \E f \in ChangePasswordForms :
          \E user \in {VerifyUser(Registered, session[p].email, f.current_password),
                       NULL} :
             proc' = [proc EXCEPT ![p] =
                        [Idle EXCEPT !.pc = IF ChangePasswordErrors(f, user # NULL) = {}
                                            THEN "password_update" ELSE "done",
                                     !.op = "change_password",
                                     !.usr = session[p].user_id, !.form = f]]
    /\ served' = served + 1
    /\ UNCHANGED <<session, Registered, nextUid, Verified, Donations, Transactions,
                   nextDid, nextTid, now>>

\* success = change_user_password(session['user_id'], new_password);
\* on success session.clear()
ChangePasswordUpdate(p) ==
    /\ proc[p].pc = "password_update"
    /\ \/ /\ Registered' = ChangeUserPassword(Registered, proc[p].usr,
                                              proc[p].form.new_password)
          /\ session' = [session EXCEPT ![p] = NoSession]
          /\ proc' = [proc EXCEPT ![p].pc = "done", ![p].result = TRUE]
       \/ /\ proc' = [proc EXCEPT ![p].pc = "done", ![p].err = TRUE]
          /\ UNCHANGED <<session, Registered>>
    /\ UNCHANGED <<nextUid, Verified, Donations, Transactions,
                   nextDid, nextTid, now, served>>

\* ------------------------------------------- requests made under a session
\* the pages that ask only for a session
Pages == {"dashboard", "donations", "profile"}

\* if 'email' not in session: return redirect(url_for('login'))
PageRedirected(p) ==
    /\ proc[p].pc \in {"idle", "done"}
    /\ served < MaxRequests
    /\ session[p] = NoSession
    /\ \E page \in Pages \cup {"edit_profile", "change_password"} :
          proc' = [proc EXCEPT ![p] =
                     [Idle EXCEPT !.pc = "done", !.op = page, !.denied = TRUE]]
    /\ served' = served + 1
    /\ UNCHANGED <<session, Registered, nextUid, Verified, Donations, Transactions,
                   nextDid, nextTid, now>>

\* session['user_id'] and session.get('role') of the browser making request p
SessionUser(p) == IF session[p] = NoSession THEN NULL ELSE session[p].user_id

HasRole(p, route) == session[p] # NoSession /\ session[p].role \in RouteRoles[route]

\* a mutating route called by browser p: turned away, or begun as the
\* session's user
SessionDenied(p) ==
    /\ Denied(p)
    /\ proc'[p].usr = SessionUser(p)
    /\ ~HasRole(p, proc'[p].op)

SessionBegin(p) ==
    /\ BeginPost(p) \/ PostRejected(p) \/ BeginClaim(p) \/ BeginAssign(p)
       \/ BeginComplete(p) \/ BeginVerify(p)
    /\ proc'[p].usr = SessionUser(p)
    /\ HasRole(p, proc'[p].op)

\* dashboard() of an administrator
SessionDashboard(p) ==
    /\ AdminDashboard(p)
    /\ proc'[p].usr = SessionUser(p)
    /\ session[p] # NoSession /\ session[p].role = "admin"

NextSession ==
    \E p \in Procs :
        \/ Login(p) \/ Logout(p)
        \/ BeginEditProfile(p) \/ EditProfileUpdate(p)
        \/ BeginChangePassword(p) \/ ChangePasswordUpdate(p)
        \/ PageRedirected(p) \/ SessionDenied(p)
        \/ SessionBegin(p) \/ SessionDashboard(p)
        \/ PostInsert(p) \/ PostCommit(p)
        \/ ClaimUpdateStmt(p) \/ ClaimInsertStmt(p) \/ ClaimCommit(p)
        \/ AssignUpdateStmt(p) \/ AssignCommit(p)
        \/ CompleteUpdate1Stmt(p) \/ CompleteUpdate2Stmt(p) \/ CompleteCommit(p)
        \/ VerifyUpdateStmt(p) \/ VerifyCommit(p)
        \/ Fail(p)

SpecSession == InitSession /\ [][NextSession]_vars

\* ------------------------------------------------------------ type check
Statuses == {"available", "claimed", "completed"}
TStatuses == {"pending", "in_progress", "completed"}

TypeOK ==
    /\ DOMAIN Donations \subseteq 1..MaxDonations
    /\ \A d \in DOMAIN Donations : Donations[d].status \in Statuses
    /\ DOMAIN Transactions \subseteq 1..MaxTxn
    /\ \A t \in DOMAIN Transactions :
          /\ Transactions[t].status \in TStatuses
          /\ Transactions[t].donation_id \in DOMAIN Donations
    /\ now \in 1..MaxClock
    /\ Verified \subseteq Users
    /\ served \in 0..MaxRequests

\* ------------------------------------------------------- shared notions
TxnsOf(d) == {t \in DOMAIN Transactions : Transactions[t].donation_id = d}

\* request p has returned from the storage call of route op
Done(p, op) == proc[p].pc = "done" /\ proc[p].op = op

\* two different claimants raced for donation d while it was available,
\* and neither call was cut short by a storage error
ClaimRace(p, q) ==
    /\ p # q
    /\ Done(p, "claim") /\ Done(q, "claim")
    /\ proc[p].arg = proc[q].arg
    /\ proc[p].usr # proc[q].usr
    /\ proc[p].snap = "available" /\ proc[q].snap = "available"
    /\ ~proc[p].err /\ ~proc[q].err

\* two different volunteers raced for transaction t while it was pending
AssignRace(p, q) ==
    /\ p # q
    /\ Done(p, "assign") /\ Done(q, "assign")
    /\ proc[p].arg = proc[q].arg
    /\ proc[p].usr # proc[q].usr
    /\ proc[p].snap = "pending" /\ proc[q].snap = "pending"
    /\ ~proc[p].err /\ ~proc[q].err

\* ------------------------------------------------------------------ C1
\* C1: when two claim() calls by different claimants race for an available
\* Donation, exactly one returns success, and afterwards the Donation is
\* claimed and referenced by exactly one Transaction.
NoDoubleClaim ==
    \A p, q \in Procs :
        ClaimRace(p, q) =>
            /\ proc[p].result # proc[q].result
            /\ Donations[proc[p].arg].status = "claimed"
            /\ Cardinality(TxnsOf(proc[p].arg)) = 1

\* ------------------------------------------------------------------ C2
\* C2: every Transaction row is created by a claim whose guarded update moved
\* its Donation from available to claimed; a claim on a claimed or completed
\* Donation inserts no row.
NoOrphanTransaction ==
    [][\A t \in DOMAIN Transactions' \ DOMAIN Transactions :
          LET d == Transactions'[t].donation_id
          IN  /\ d \in DOMAIN Donations
              /\ Donations[d].status = "available"
              /\ Donations'[d].status = "claimed"]_vars

\* ------------------------------------------------------------------ C3
\* C3: claim() returns true only if its guarded update changed exactly one
\* row; on a Donation already claimed or completed it returns false.
ClaimTrueOnlyIfRowChanged ==
    \A p \in Procs :
        Done(p, "claim") =>
            /\ proc[p].result => proc[p].rows = 1
            /\ proc[p].snap \in {"claimed", "completed"} => ~proc[p].result

\* ------------------------------------------------------------------ C4
\* C4: when two assign() calls by different volunteers race for a pending
\* Transaction, exactly one returns success, and the Transaction ends
\* in_progress with the volunteer_id of the call that succeeded.
NoDoubleAssign ==
    \A p, q \in Procs :
        AssignRace(p, q) =>
            /\ proc[p].result # proc[q].result
            /\ Transactions[proc[p].arg].status = "in_progress"
            /\ Transactions[proc[p].arg].volunteer_id =
                  (IF proc[p].result THEN proc[p].usr ELSE proc[q].usr)

\* ------------------------------------------------------------------ C5
\* C5: assign() on a Transaction that is in_progress or completed returns
\* failure and leaves its volunteer_id and status unchanged.
AssignRejectedUnlessPending ==
    [][\A p \in Procs :
          (/\ proc[p].op = "assign"
           /\ proc[p].pc # "done" /\ proc'[p].pc = "done"
           /\ proc[p].snap \in {"in_progress", "completed"})
          => /\ ~proc'[p].result
             /\ Transactions'[proc[p].arg].volunteer_id =
                   Transactions[proc[p].arg].volunteer_id
             /\ Transactions'[proc[p].arg].status =
                   Transactions[proc[p].arg].status]_vars

\* ------------------------------------------------------------------ C6
\* C6: completion is published as one unit.  No step of the committed state
\* moves a Transaction to completed without its Donation being completed in
\* the resulting state, none moves a Donation to completed without moving one
\* of its Transactions to completed in the same step, and the commit of
\* complete() on an in_progress Transaction whose Donation is claimed yields
\* Transaction completed, completed_at set and Donation completed.
BecomesCompletedT(t) ==
    /\ Transactions'[t].status = "completed"
    /\ (t \notin DOMAIN Transactions \/ Transactions[t].status # "completed")

BecomesCompletedD(d) ==
    /\ Donations'[d].status = "completed"
    /\ (d \notin DOMAIN Donations \/ Donations[d].status # "completed")

CompletionAtomic ==
    [][/\ \A t \in DOMAIN Transactions' :
             BecomesCompletedT(t) =>
                Donations'[Transactions'[t].donation_id].status = "completed"
       /\ \A d \in DOMAIN Donations' :
             BecomesCompletedD(d) =>
                \E t \in DOMAIN Transactions' :
                    Transactions'[t].donation_id = d /\ BecomesCompletedT(t)
       /\ \A p \in Procs :
             (/\ proc[p].pc = "complete_commit"
              /\ proc'[p].pc = "done" /\ proc'[p].result
              /\ Transactions[proc[p].arg].status = "in_progress"
              /\ Donations[Transactions[proc[p].arg].donation_id].status = "claimed")
             => /\ Transactions'[proc[p].arg].status = "completed"
                /\ Transactions'[proc[p].arg].completed_at # NULL
                /\ Donations'[Transactions[proc[p].arg].donation_id].status = "completed"
      ]_vars

\* complete() has returned success for a Transaction it found in_progress
\* with a claimed Donation, and both rows now read completed
CompletionPropagated ==
    \E p \in Procs :
        /\ Done(p, "complete") /\ proc[p].result
        /\ proc[p].snap = "in_progress" /\ proc[p].snapD = "claimed"
        /\ Transactions[proc[p].arg].status = "completed"
        /\ Transactions[proc[p].arg].completed_at # NULL
        /\ Donations[Transactions[proc[p].arg].donation_id].status = "completed"

\* ------------------------------------------------------------------ C7
\* C7: when Error is raised inside claim() or complete() after the first
\* statement has executed and before the commit took effect, the call
\* returns failure and the committed Donation and Transaction rows are
\* exactly what they were.
AfterFirstStatement ==
    {"claim_insert", "claim_commit", "complete_update2", "complete_commit"}

NoPartialState ==
    [][\A p \in Procs :
          (/\ proc[p].pc \in AfterFirstStatement
           /\ proc'[p].pc = "done" /\ proc'[p].err)
          => /\ ~proc'[p].result
             /\ Donations' = Donations
             /\ Transactions' = Transactions]_vars

\* a claim whose guarded update had changed the donation row failed, and the
\* donation is still available with no Transaction
ClaimRolledBack ==
    \E p \in Procs :
        /\ Done(p, "claim") /\ proc[p].err /\ ~proc[p].result
        /\ proc[p].rows = 1
        /\ Donations[proc[p].arg].status = "available"
        /\ TxnsOf(proc[p].arg) = {}

\* ------------------------------------------------------------------ C8
\* C8: a Donation's status only moves forward along
\* available -> claimed -> completed, and no Donation row disappears.
Rank == [available |-> 0, claimed |-> 1, completed |-> 2]

DonationStatusMonotonic ==
    [][\A d \in DOMAIN Donations :
          /\ d \in DOMAIN Donations'
          /\ Rank[Donations'[d].status] >= Rank[Donations[d].status]]_vars

\* claim() has run to its commit on a Donation that was already completed,
\* and the Donation is still completed
ClaimOnCompletedDonation ==
    \E p \in Procs :
        /\ Done(p, "claim") /\ ~proc[p].err
        /\ proc[p].snap = "completed"
        /\ Donations[proc[p].arg].status = "completed"

\* ------------------------------------------------------------------ C9
\* C9: once a Transaction is completed, no later call changes its status or
\* its volunteer_id.
CompletedIsTerminal ==
    [][\A t \in DOMAIN Transactions :
          Transactions[t].status = "completed" =>
             /\ t \in DOMAIN Transactions'
             /\ Transactions'[t].status = "completed"
             /\ Transactions'[t].volunteer_id = Transactions[t].volunteer_id]_vars

\* ----------------------------------------------------------------- C10
\* C10: every status change of a Transaction is pending -> in_progress or
\* in_progress -> completed; in particular complete() on a pending
\* Transaction does not move it to completed.
OnlyLifecycleSteps ==
    [][\A t \in DOMAIN Transactions :
          (t \in DOMAIN Transactions'
           /\ Transactions'[t].status # Transactions[t].status)
          => \/ /\ Transactions[t].status = "pending"
                /\ Transactions'[t].status = "in_progress"
             \/ /\ Transactions[t].status = "in_progress"
                /\ Transactions'[t].status = "completed"]_vars

\* ----------------------------------------------------------------- C11
\* C11: in every committed state a Transaction's volunteer_id is null if and
\* only if its status is pending.
VolunteerNullIffPending ==
    \A t \in DOMAIN Transactions :
        (Transactions[t].volunteer_id = NULL) <=> (Transactions[t].status = "pending")

\* ----------------------------------------------------------------- C12
\* C12: in every committed state a completed Transaction has a completed
\* parent Donation.
CompletedTxnHasCompletedDonation ==
    \A t \in DOMAIN Transactions :
        Transactions[t].status = "completed" =>
            /\ Transactions[t].donation_id \in DOMAIN Donations
            /\ Donations[Transactions[t].donation_id].status = "completed"

\* complete() has committed on one of two Transactions of the same Donation
SecondTxnCompleted ==
    \E p \in Procs, t \in DOMAIN Transactions :
        /\ Done(p, "complete") /\ proc[p].result /\ proc[p].arg = t
        /\ Transactions[t].status = "completed"
        /\ Cardinality(TxnsOf(Transactions[t].donation_id)) > 1

\* ----------------------------------------------------------------- C13
\* C13: in every committed state a Donation is referenced by at most one
\* Transaction that is not completed.
ActiveTxnsOf(d) == {t \in TxnsOf(d) : Transactions[t].status # "completed"}

AtMostOneActiveTxn ==
    \A d \in DOMAIN Donations : Cardinality(ActiveTxnsOf(d)) <= 1

\* ----------------------------------------------------------------- C14
\* C14: in every committed state a Donation in status available is
\* referenced by no Transaction.
AvailableHasNoTxn ==
    \A d \in DOMAIN Donations :
        Donations[d].status = "available" => TxnsOf(d) = {}

\* a claim has committed its Transaction while another Donation is still
\* available
AvailableBesideClaimed ==
    \E p \in Procs, d \in DOMAIN Donations :
        /\ Done(p, "claim") /\ proc[p].result /\ proc[p].arg # d
        /\ TxnsOf(proc[p].arg) # {}
        /\ Donations[d].status = "available"

\* ----------------------------------------------------------------- C15
\* C15: once a Transaction holds a volunteer id, no later call replaces it.
VolunteerSetOnce ==
    [][\A t \in DOMAIN Transactions :
          Transactions[t].volunteer_id # NULL =>
             /\ t \in DOMAIN Transactions'
             /\ Transactions'[t].volunteer_id = Transactions[t].volunteer_id]_vars

\* ----------------------------------------------------------------- C16
\* C16: claim, assign, complete and verify-ngo never change the donation_id
\* or ngo_id of an existing Transaction nor the donor_id of an existing
\* Donation, and never remove such a row.
ForeignKeysImmutable ==
    [][/\ \A t \in DOMAIN Transactions :
             /\ t \in DOMAIN Transactions'
             /\ Transactions'[t].donation_id = Transactions[t].donation_id
             /\ Transactions'[t].ngo_id = Transactions[t].ngo_id
       /\ \A d \in DOMAIN Donations :
             /\ d \in DOMAIN Donations'
             /\ Donations'[d].donor_id = Donations[d].donor_id]_vars

\* a Transaction has been claimed and assigned, an administrator has
\* verified its NGO, and it still names its Donation and its NGO
LifecycleRunWithVerify ==
    \E t \in DOMAIN Transactions :
        /\ Transactions[t].status = "in_progress"
        /\ Transactions[t].volunteer_id # NULL
        /\ Transactions[t].ngo_id \in Verified
        /\ Role[Transactions[t].ngo_id] \in {"ngo", "receiver"}
        /\ Role[Donations[Transactions[t].donation_id].donor_id] = "donor"

\* ----------------------------------------------------------------- C17
\* C17: the commit of a successful claim(d, claimant) on an available
\* Donation changes that Donation's status to claimed, adds exactly one
\* Transaction (donation_id d, ngo_id claimant, pending, no volunteer) and
\* changes no other Donation or Transaction.
ClaimEffect ==
    [][\A p \in Procs :
          (/\ proc[p].pc = "claim_commit"
           /\ proc'[p].pc = "done" /\ proc'[p].result
           /\ Donations[proc[p].arg].status = "available")
          => LET d == proc[p].arg
                 added == DOMAIN Transactions' \ DOMAIN Transactions
             IN  /\ Donations' = [Donations EXCEPT ![d].status = "claimed"]
                 /\ Cardinality(added) = 1
                 /\ \A t \in added :
                       /\ Transactions'[t].donation_id = d
                       /\ Transactions'[t].ngo_id = proc[p].usr
                       /\ Transactions'[t].status = "pending"
                       /\ Transactions'[t].volunteer_id = NULL
                 /\ \A t \in DOMAIN Transactions :
                       t \in DOMAIN Transactions' /\ Transactions'[t] = Transactions[t]
      ]_vars

\* a claim that found its Donation available has committed while another
\* Donation and another Transaction exist
ClaimSucceededAmongOthers ==
    \E p \in Procs :
        /\ Done(p, "claim") /\ proc[p].result /\ proc[p].rows = 1
        /\ Donations[proc[p].arg].status = "claimed"
        /\ \E t \in TxnsOf(proc[p].arg) : Transactions[t].ngo_id = proc[p].usr
        /\ \E d \in DOMAIN Donations : d # proc[p].arg /\ TxnsOf(d) # {}

\* ----------------------------------------------------------------- C18
\* C18: complete() on a Transaction that is already completed returns
\* success and leaves the Transaction (status, volunteer_id, completed_at)
\* and its Donation exactly as they were.
CompleteIdempotent ==
    [][\A p \in Procs :
          (/\ proc[p].pc = "complete_commit"
           /\ proc'[p].pc = "done" /\ ~proc'[p].err
           /\ Transactions[proc[p].arg].status = "completed")
          => /\ proc'[p].result
             /\ Transactions'[proc[p].arg] = Transactions[proc[p].arg]
             /\ Donations' = Donations]_vars

\* ----------------------------------------------------------------- C19
\* C19: the work queue read by a volunteer is exactly the set of committed
\* Transactions that are pending with no volunteer, and a Transaction that
\* has left that set (it was assigned) never enters it again.
InQueue(T, t) == T[t].status = "pending" /\ T[t].volunteer_id = NULL

WorkQueueExact ==
    [][/\ \A p \in Procs :
             (/\ proc[p].pc = "pickups_pending"
              /\ proc'[p].pc = "pickups_assignments" /\ ~proc'[p].err)
             => proc'[p].result.pending =
                   {t \in DOMAIN Transactions : InQueue(Transactions, t)}
       /\ \A t \in DOMAIN Transactions :
             ~InQueue(Transactions, t) =>
                 t \in DOMAIN Transactions' /\ ~InQueue(Transactions', t)]_vars

\* a volunteer has read the page: a Transaction assigned to them is among
\* their assignments and not in the queue
AssignedLeftQueue ==
    \E p \in Procs, t \in DOMAIN Transactions :
        /\ Done(p, "pickups") /\ ~proc[p].err
        /\ Transactions[t].volunteer_id = proc[p].usr
        /\ t \in proc[p].result.mine
        /\ t \notin proc[p].result.pending

\* ----------------------------------------------------------------- C20
\* C20: the statistics report total_transactions equal to the number of
\* Transactions and to the sum of transactions_by_status; completion_rate is
\* 100 x completed / total rounded to one decimal (the nearest tenth; 70.0
\* for 7 of 10), 0 when there is no Transaction, and lies between 0 and 100.
\* The rate is held in tenths of a percent.
CompletedCount == Cardinality({t \in DOMAIN Transactions :
                                  Transactions[t].status = "completed"})

Abs(x) == IF x < 0 THEN -x ELSE x

CompletionRateCorrect ==
    \A p \in Procs :
        (Done(p, "stats") /\ ~proc[p].err) =>
            LET r == proc[p].result
                total == r.total_transactions
                rate == r.completion_rate
            IN  /\ total = Cardinality(DOMAIN Transactions)
                /\ total = Total(r.transactions_by_status)
                /\ rate >= 0 /\ rate <= 1000
                /\ total = 0 => rate = 0
                /\ total > 0 => 2 * Abs(rate * total - 1000 * CompletedCount) <= total
                /\ (total = 10 /\ CompletedCount = 7) => rate = 700

\* the statistics were computed for 2 pending, 1 in_progress and 7 completed
\* Transactions and report 70.0
SeventyPercent ==
    \E p \in Procs :
        /\ Done(p, "stats") /\ ~proc[p].err
        /\ proc[p].result.transactions_by_status =
              [pending |-> 2, in_progress |-> 1, completed |-> 7]
        /\ proc[p].result.completion_rate = 700

\* ----------------------------------------------------------------- C21
\* text s contains text q as a run of consecutive characters
Contains(s, q) ==
    \E i \in 0..(Len(s) - Len(q)) : SubSeq(s, i + 1, i + Len(q)) = q

Range(f) == {f[i] : i \in DOMAIN f}

\* C21: a search with a non-empty query and a type other than "all" returns
\* exactly the available Donations whose description or quantity contains
\* the query and whose type is the given type.
SearchIsSubstringAndType ==
    \A p \in Procs :
        (/\ Done(p, "search") /\ ~proc[p].err
         /\ proc[p].arg.query # <<>>
         /\ proc[p].arg.type # "all") =>
            /\ Len(proc[p].result) = Cardinality(Range(proc[p].result))
            /\ Range(proc[p].result) =
                  {d \in DOMAIN Donations :
                      /\ Donations[d].status = "available"
                      /\ \/ Contains(Donations[d].description, proc[p].arg.query)
                         \/ Contains(Donations[d].quantity, proc[p].arg.query)
                      /\ Donations[d].type = proc[p].arg.type}

\* ----------------------------------------------------------------- C22
\* C22: a search with the empty query and type "all" returns the Donations
\* whose status is the status filter, newest first, and its result is the
\* very list get_all_donations returns for that status in the same store.
SearchAllEqualsList ==
    \A p \in Procs :
        /\ (/\ proc[p].pc = "done" /\ ~proc[p].err
            /\ \/ proc[p].op = "list"
               \/ /\ proc[p].op = "search"
                  /\ proc[p].arg.query = <<>> /\ proc[p].arg.type = "all") =>
              LET r == proc[p].result
              IN  /\ Len(r) = Cardinality(Range(r))
                  /\ Range(r) = {d \in DOMAIN Donations :
                                    Donations[d].status = proc[p].arg.status}
                  /\ \A i, j \in DOMAIN r :
                        i < j => Donations[r[i]].created_at >= Donations[r[j]].created_at
        /\ \A q \in Procs :
              (/\ Done(p, "search") /\ ~proc[p].err
               /\ proc[p].arg.query = <<>> /\ proc[p].arg.type = "all"
               /\ Done(q, "list") /\ ~proc[q].err
               /\ proc[q].arg.status = proc[p].arg.status) =>
                  proc[p].result = proc[q].result

\* an unfiltered search and a listing of the available Donations both
\* returned two Donations created at the same time
UnfilteredSearchBesideList ==
    \E p, q \in Procs :
        /\ Done(p, "search") /\ ~proc[p].err
        /\ proc[p].arg.query = <<>> /\ proc[p].arg.type = "all"
        /\ Done(q, "list") /\ ~proc[q].err /\ proc[q].arg.status = "available"
        /\ Len(proc[p].result) = 2
        /\ Donations[1].created_at = Donations[2].created_at
        /\ \E d \in DOMAIN Donations : Donations[d].status = "available"

\* ----------------------------------------------------------------- C23
\* every required field of the form request p submitted is non-empty
AllFieldsGiven(p) ==
    /\ proc[p].form.type # <<>>
    /\ proc[p].form.description # <<>>
    /\ proc[p].form.quantity # <<>>
    /\ proc[p].form.pickup_address # <<>>

\* C23 as stated: a donor's post with non-empty type, description, quantity
\* and pickup_address has inserted a Donation of the poster (storage errors
\* aside); a post with one of them empty is rejected.
NonEmptyPostInserts ==
    \A p \in Procs :
        (Done(p, "post") /\ ~proc[p].err) =>
            IF AllFieldsGiven(p)
            THEN /\ proc[p].result = TRUE
                 /\ proc[p].arg \in DOMAIN Donations
                 /\ Donations[proc[p].arg].donor_id = proc[p].usr
            ELSE proc[p].result = FALSE

\* C23, amended: a donor's post whose type and quantity are non-empty and
\* whose description and pickup_address have at least 10 characters (all
\* after trimming) inserts, unless the store raises an error, exactly one
\* new Donation with status available and donor_id the poster, and changes
\* no other row; every other post is rejected before any storage call and
\* leaves Donations unchanged.
PostEffect ==
    [][\A p \in Procs :
          (proc'[p].pc = "done" /\ proc'[p].op = "post" /\ proc'[p] # proc[p]) =>
              LET f == proc'[p].form
                  valid == /\ f.type # <<>> /\ f.quantity # <<>>
                           /\ Len(f.description) >= 10
                           /\ Len(f.pickup_address) >= 10
              IN  IF valid
                  THEN IF proc'[p].err
                       THEN proc'[p].result = FALSE /\ Donations' = Donations
                       ELSE /\ proc'[p].result = TRUE
                            /\ proc'[p].arg \notin DOMAIN Donations
                            /\ DOMAIN Donations' = DOMAIN Donations \cup {proc'[p].arg}
                            /\ Donations'[proc'[p].arg] =
                                  [donor_id |-> proc'[p].usr, status |-> "available"]
                            /\ \A d \in DOMAIN Donations : Donations'[d] = Donations[d]
                  ELSE /\ proc[p].pc \in {"idle", "done"}
                       /\ proc'[p].result = FALSE
                       /\ Donations' = Donations]_vars

\* one post was stored while another, with a four-character description and
\* no field empty, was rejected
PostedBesideRejected ==
    \E p, q \in Procs :
        /\ Done(p, "post") /\ proc[p].result = TRUE
        /\ proc[p].arg \in DOMAIN Donations
        /\ Done(q, "post") /\ ~proc[q].err /\ proc[q].result = FALSE
        /\ AllFieldsGiven(q)
        /\ Len(proc[q].form.description) = 4

\* ----------------------------------------------------------------- C24
\* C24: no two Users rows share an email, whatever the interleaving of
\* registrations, and a registration of an email that was already stored
\* when the request was made fails and creates no user.
EmailUnique ==
    [][/\ \A u, v \in DOMAIN Registered' :
             u # v => Registered'[u].email # Registered'[v].email
       /\ \A p \in Procs :
             (/\ proc'[p].pc = "done" /\ proc'[p].op = "register"
              /\ proc'[p] # proc[p]
              /\ proc'[p].snap = "taken") =>
                 proc'[p].result = FALSE /\ Registered' = Registered]_vars

\* two registrations of one email both passed the lookup; one was stored,
\* the other's INSERT was refused
DuplicateRegistrationRefused ==
    \E p, q \in Procs :
        /\ Done(p, "register") /\ proc[p].result = TRUE /\ proc[p].snap = "free"
        /\ Done(q, "register") /\ proc[q].err /\ proc[q].snap = "free"
        /\ proc[p].form.email = proc[q].form.email
        /\ Cardinality(DOMAIN Registered) = 1
        /\ nextUid = Cardinality(Users) + 3

\* ----------------------------------------------------------------- C27
\* a form the claim calls invalid
InvalidForm(f) ==
    \/ <<>> \in {f.fullname, f.email, f.phone, f.role, f.password, f.confirm_password}
    \/ Len(f.password) < 6
    \/ \A i \in 1..Len(f.password) : f.password[i] \notin Digits
    \/ Len(f.phone) # 10
    \/ \E i \in 1..Len(f.phone) : f.phone[i] \notin Digits
    \/ f.password # f.confirm_password
    \/ f.role \notin RegisterRoles

\* C27: a registration with a required field empty, a password shorter than
\* 6 characters or without a digit, a phone that is not exactly 10 digits, a
\* mismatched confirmation or a role outside the allowed set is rejected
\* before any storage call and leaves the Users table unchanged.
InvalidRegistrationCreatesNoUser ==
    [][\A p \in Procs :
          (/\ proc'[p].op = "register" /\ proc'[p] # proc[p]
           /\ InvalidForm(proc'[p].form)) =>
              /\ proc'[p].pc = "done" /\ proc'[p].result = FALSE
              /\ proc'[p].wR = <<>>
              /\ proc[p].pc \in {"idle", "done"}
              /\ Registered' = Registered]_vars

\* a registration whose password has no digit was rejected next to one
\* that was stored
WeakPasswordRejected ==
    \E p, q \in Procs :
        /\ Done(p, "register") /\ proc[p].result = FALSE /\ ~proc[p].err
        /\ proc[p].form.password = <<"a", "b", "c", "d", "e", "f">>
        /\ Done(q, "register") /\ proc[q].result = TRUE
        /\ DOMAIN Registered # {}

\* ----------------------------------------------------------------- C25
\* C25: the verified flags only grow, they change only in a step of a
\* verify-ngo request made with an administrator's session, and no step of
\* a request without a session or with another role changes them.
VerifiedOnlyByAdmin ==
    [][/\ Verified \subseteq Verified'
       /\ Verified' # Verified =>
             \E p \in Procs :
                 /\ proc[p].op = "verify" /\ proc'[p] # proc[p]
                 /\ proc[p].usr \in Users /\ Role[proc[p].usr] = "admin"
       /\ \A p \in Procs :
             (/\ proc'[p] # proc[p]
              /\ \/ proc'[p].usr = NULL
                 \/ Role[proc'[p].usr] # "admin") => Verified' = Verified]_vars

\* the administrator verified a user while an ngo's own verify-ngo request
\* was turned away
VerifiedWhileNgoTurnedAway ==
    \E p, q \in Procs :
        /\ Done(p, "verify") /\ proc[p].result = TRUE /\ proc[p].arg \in Verified
        /\ Done(q, "verify") /\ proc[q].denied /\ proc[q].usr = 2
        /\ 2 \notin Verified

\* ----------------------------------------------------------------- C28
\* the session the claim designates for a route
Designated(op, s) ==
    /\ s # NULL
    /\ CASE op = "post" -> Role[s] = "donor"
         [] op = "claim" -> Role[s] \in {"receiver", "ngo"}
         [] op = "assign" -> Role[s] = "volunteer"
         [] op = "complete" -> Role[s] = "volunteer"
         [] op = "verify" -> Role[s] = "admin"
         [] OTHER -> TRUE

\* C28: a post-donation, claim-donation, accept-pickup, complete-delivery or
\* verify-ngo request made without a session, or with a session of another
\* role than the route's, is answered before any storage call and leaves
\* Users, Donations and Transactions unchanged.
RoleGating ==
    [][\A p \in Procs :
          (/\ proc'[p] # proc[p]
           /\ proc'[p].op \in {"post", "claim", "assign", "complete", "verify"}
           /\ ~Designated(proc'[p].op, proc'[p].usr)) =>
              /\ proc'[p].pc = "done" /\ proc'[p].denied
              /\ proc'[p].wD = <<>> /\ proc'[p].wT = <<>> /\ proc'[p].wU = {}
              /\ Registered' = Registered /\ Verified' = Verified
              /\ Donations' = Donations /\ Transactions' = Transactions]_vars

\* a donor's claim-donation request was turned away and the posted Donation
\* is still available
DonorClaimTurnedAway ==
    \E p \in Procs :
        /\ Done(p, "claim") /\ proc[p].denied /\ proc[p].usr = 1
        /\ 1 \in DOMAIN Donations /\ Donations[1].status = "available"
        /\ Transactions = <<>>

\* ----------------------------------------------------------------- C29
\* C29: a complete-delivery request changes a Transaction only when the
\* requesting volunteer is the volunteer assigned to it.
CompleteOnlyByAssignee ==
    [][\A p \in Procs :
          (/\ proc[p].op = "complete" /\ proc[p].pc = "complete_commit"
           /\ proc'[p].pc = "done"
           /\ Transactions' # Transactions) =>
              Transactions[proc[p].arg].volunteer_id = proc[p].usr]_vars

\* ----------------------------------------------------------------- C30
\* C30: every completed Donation is referenced by a completed Transaction.
CompletedDonationHasCompletedTxn ==
    \A d \in DOMAIN Donations :
        Donations[d].status = "completed" =>
            \E t \in TxnsOf(d) : Transactions[t].status = "completed"

\* ----------------------------------------------------------------- C26
\* C26: no Donation and no Transaction is ever deleted; a step of a post,
\* assign, verify-ngo, registration, work-queue or statistics request leaves
\* every existing Donation as it was, so a Donation's status changes only
\* in a step of a claim or a completion.
DonationFrame ==
    [][/\ DOMAIN Donations \subseteq DOMAIN Donations'
       /\ DOMAIN Transactions \subseteq DOMAIN Transactions'
       /\ \A d \in DOMAIN Donations :
             Donations'[d] # Donations[d] =>
                \E p \in Procs : /\ proc'[p] # proc[p]
                                 /\ proc[p].op \in {"claim", "complete"}
       /\ \A p \in Procs :
             (/\ proc'[p] # proc[p]
              /\ proc'[p].op \in {"post", "assign", "verify", "register",
                                  "pickups", "stats"}) =>
                 \A d \in DOMAIN Donations : Donations'[d] = Donations[d]]_vars

\* a volunteer was assigned and a user registered while the claimed
\* Donation kept its status
AssignedAndRegisteredBesideClaimed ==
    \E p, q \in Procs :
        /\ Done(p, "assign") /\ proc[p].result = TRUE
        /\ proc[p].arg \in DOMAIN Transactions
        /\ Transactions[proc[p].arg].status = "in_progress"
        /\ Donations[Transactions[proc[p].arg].donation_id].status = "claimed"
        /\ Done(q, "register") /\ proc[q].result = TRUE
        /\ DOMAIN Registered # {}

\* ----------------------------------------------------------------- C31
\* C31: in every committed state, every Donation whose status is claimed or
\* completed is referenced by at least one Transaction.
LeftAvailableHasTxn ==
    \A d \in DOMAIN Donations :
        Donations[d].status \in {"claimed", "completed"} => TxnsOf(d) # {}

\* a Donation went from available through claimed to completed, and the
\* Transaction of its claim is still there
CompletedStillReferenced ==
    \E p \in Procs :
        /\ Done(p, "complete") /\ proc[p].result = TRUE
        /\ proc[p].snapD = "claimed"
        /\ \E d \in DOMAIN Donations :
              /\ Donations[d].status = "completed"
              /\ proc[p].arg \in TxnsOf(d)
              /\ \E e \in DOMAIN Donations : e # d /\ Donations[e].status = "available"
                                                   /\ TxnsOf(e) = {}

\* ----------------------------------------------------------------- C33
\* C33: every user created through the register request has a role among
\* donor, receiver, volunteer and ngo; no register request yields a user
\* whose role is admin.
RegistrationNeverCreatesAdmin ==
    \A u \in DOMAIN Registered :
        /\ Registered[u].role \in
              {<<"d", "o", "n", "o", "r">>, <<"r", "e", "c", "e", "i", "v", "e", "r">>,
               <<"v", "o", "l", "u", "n", "t", "e", "e", "r">>, <<"n", "g", "o">>}
        /\ Registered[u].role # <<"a", "d", "m", "i", "n">>

\* a form asking for the role admin was turned down while another form
\* created a user
AdminFormRejectedBesideUser ==
    \E p, q \in Procs :
        /\ Done(p, "register") /\ proc[p].form.role = <<"a", "d", "m", "i", "n">>
        /\ proc[p].result = FALSE /\ ~proc[p].err
        /\ Done(q, "register") /\ proc[q].result = TRUE
        /\ proc[q].arg \in DOMAIN Registered
        /\ Registered[proc[q].arg].role = <<"n", "g", "o">>

\* ----------------------------------------------------------------- C32
\* C32: no step of a claim, assign, complete, verify-ngo, post, login,
\* logout, profile edit or password change removes a user or changes the
\* role or the email of an existing user.
RoleAndEmailFixed ==
    [][\A u \in DOMAIN Registered :
          /\ u \in DOMAIN Registered'
          /\ Registered'[u].email = Registered[u].email
          /\ Registered'[u].role = Registered[u].role]_vars

\* a user's profile edit changed the name on their row, an administrator
\* verified a user, and the editor's row still has the email and the role
\* it was registered with
ProfileEditedRoleKept ==
    \E p, q \in Procs :
        /\ Done(p, "edit_profile") /\ proc[p].result = TRUE
        /\ Registered[proc[p].usr].name = <<"B", "o", "b">>
        /\ Registered[proc[p].usr].email = Email[proc[p].usr]
        /\ Registered[proc[p].usr].role = Role[proc[p].usr]
        /\ Done(q, "verify") /\ proc[q].result = TRUE
        /\ Verified # {}

\* ----------------------------------------------------------------- C34
\* C34: a browser's session comes to hold a user_id, email and role only in
\* a step of a login whose email and password are those of a stored user,
\* and then they are that user's; a logout step and a successful password
\* change leave the session empty; and while the session is empty every
\* request to a protected route is turned away with the store unchanged.
ProtectedRoutes ==
    {"dashboard", "donations", "profile", "edit_profile", "change_password",
     "stats", "post", "claim", "assign", "complete", "verify"}

Identity(s) == IF s = <<>> THEN <<>> ELSE <<s.user_id, s.email, s.role>>

SessionOnlyByLogin ==
    [][\A p \in Procs :
          /\ (Identity(session'[p]) # <<>> /\ Identity(session'[p]) # Identity(session[p])) =>
                /\ proc[p].pc \in {"idle", "done"}
                /\ proc'[p].pc = "done" /\ proc'[p].op = "login"
                /\ \E u \in DOMAIN Registered :
                      /\ Registered[u].email = proc'[p].form.email
                      /\ Registered[u].password = <<"#">> \o proc'[p].form.password
                      /\ Identity(session'[p]) =
                            <<u, Registered[u].email, Registered[u].role>>
          /\ (proc'[p] # proc[p] /\ proc'[p].op = "logout") => session'[p] = <<>>
          /\ (/\ proc[p].op = "change_password" /\ proc[p].pc # "done"
              /\ proc'[p].pc = "done" /\ proc'[p].result = TRUE) => session'[p] = <<>>
          /\ (/\ session[p] = <<>> /\ proc'[p] # proc[p]
              /\ proc[p].pc \in {"idle", "done"}
              /\ proc'[p].op \in ProtectedRoutes) =>
                /\ proc'[p].pc = "done" /\ proc'[p].denied
                /\ UNCHANGED <<session, Registered, Verified, Donations, Transactions>>]_vars

\* one browser logged in and changed its password, which emptied its
\* session, while the other, never logged in, was turned away from a
\* protected route
PasswordChangedAndLoggedOut ==
    \E p, q \in Procs :
        /\ Done(p, "change_password") /\ proc[p].result = TRUE
        /\ session[p] = <<>>
        /\ proc[q].pc = "done" /\ proc[q].op = "claim" /\ proc[q].denied
        /\ session[q] = <<>>

\* ----------------------------------------------------------------- C35
\* C35: a call made while the connection to the store cannot be opened
\* returns False from claim, assign, complete and verify_ngo, None from
\* create_user and create_donation, the empty list from a list or search
\* query and the empty mapping from the platform statistics, and changes no
\* stored row.
StoreUnreachable ==
    [][\A p \in Procs :
          (proc'[p] # proc[p] /\ ~proc'[p].conn) =>
             /\ UNCHANGED <<Registered, Verified, Donations, Transactions>>
             /\ proc'[p].pc = "done"
             /\ proc'[p].wD = <<>> /\ proc'[p].wT = <<>>
             /\ proc'[p].wU = {} /\ proc'[p].wR = <<>>
             /\ IF proc'[p].op \in {"claim", "assign", "complete", "verify"}
                THEN proc'[p].result = FALSE
                ELSE IF proc'[p].op \in {"register", "post"}
                     THEN proc'[p].result = NULL
                     ELSE /\ proc'[p].op \in {"search", "list", "stats"}
                          /\ DOMAIN proc'[p].result = {}]_vars

\* a claim made without a connection returned False and left the Donation
\* available with no Transaction, and the statistics asked for without a
\* connection came back empty
ClaimAndStatsWithoutConnection ==
    \E p, q \in Procs :
        /\ Done(p, "claim") /\ ~proc[p].conn /\ proc[p].result = FALSE
        /\ Donations[proc[p].arg].status = "available"
        /\ TxnsOf(proc[p].arg) = {}
        /\ Done(q, "stats") /\ ~proc[q].conn /\ proc[q].result = <<>>

\* ----------------------------------------------------------------- C36
\* C36: the Donation stored by create_donation carries every field passed
\* to it; a donation posted with notes N is stored with notes N.
DonationCarriesEveryField ==
    \A p \in Procs :
        (Done(p, "post") /\ proc[p].result = TRUE /\ proc[p].arg \in DOMAIN Donations) =>
            LET row == Donations[proc[p].arg]
                f == proc[p].form
            IN  /\ row.donor_id = proc[p].usr
                /\ row.type = f.type
                /\ row.description = f.description
                /\ row.quantity = f.quantity
                /\ row.pickup_address = f.pickup_address
                /\ row.pickup_time = f.pickup_time
                /\ row.expiry_date = f.expiry_date
                /\ f.notes # <<>> => ("notes" \in DOMAIN row /\ row.notes = f.notes)

\* ----------------------------------------------------------------- C37
\* C37: the lifecycle never gets stuck: while a Transaction is not
\* completed, a request for it can begin or a step of a request under way
\* can be taken; and, the volunteers' requests being served fairly, every
\* Transaction created by a claim is eventually completed together with its
\* Donation.
StepPossible ==
    \E p \in Procs :
        \/ proc[p].pc \in {"idle", "done"}
        \/ ENABLED (\/ AssignUpdateStmt(p) \/ AssignCommit(p)
                    \/ CompleteUpdate1Stmt(p) \/ CompleteUpdate2Stmt(p)
                    \/ CompleteCommit(p))

Delivered(t) ==
    /\ t \in DOMAIN Transactions
    /\ Transactions[t].status = "completed"
    /\ Donations[Transactions[t].donation_id].status = "completed"

====
